---- MODULE Spec2Model ----
(***************************************************************************)
(* The RDB decoder of pkg/psync (rdb.go): checkHeader, the loadData        *)
(* opcode loop, loadValue and the stream primitives, run byte by byte      *)
(* over a snapshot stream, with the destination connection the decoder     *)
(* writes to.                                                              *)
(***************************************************************************)
EXTENDS Integers, Sequences, FiniteSets, TLC

VARIABLES
    stream,       \* the bytes the source sends: snapshot, then command stream
    items,        \* the opcodes and records the snapshot was built from
    pos,          \* bytes r.buf (the bufio.Reader) has handed out
    r,            \* the rdb struct's counters: r.i consumed, r.n announced
    expire,       \* loadData's local expire, an int64 as 8 little-endian bytes
    hasSelectDb,  \* loadData's local hasSelectDb
    pc,           \* "checkHeader", "loadData", "done", "failed"
    err,          \* the error loadRDB returns
    sent,         \* commands r.conn.Do sent, with the destination's reply
    destDB,       \* database selected on the destination connection
    dest,         \* destination keyspace: <<db, key>> -> value
    loaded,       \* calls of loadValue: where the record began, key, type, expire
    input,        \* a byte cursor under test: [data, index]
    ret,          \* what the last call on input returned: [op, arg, err, v]
    buff,         \* the package's 8-byte scratch buffer
    dec,          \* decoders in a primitive read: [in, kind, pc, res]
    psync         \* Psync after `go p.log(p.dest)`: ctx, Go, log, connection

\* the state of a decode run, and the state outside of it
run == <<stream, items, pos, r, expire, hasSelectDb, pc, err, sent, destDB,
         dest, loaded>>
others == <<input, ret, buff, dec, psync>>

vars == <<stream, items, pos, r, expire, hasSelectDb, pc, err, sent, destDB,
          dest, loaded, input, ret, buff, dec, psync>>

\* ---------------------------------------------------------------- bounds
MaxItems == 3
\* the destination may break on, or reject, any of the first MaxFail
\* commands of one loop turn
MaxFail == 2

\* ------------------------------------------------------- program constants
TypeString == 0
TypeList == 1
TypeSet == 2
TypeZset == 3
TypeHash == 4
TypeZset2 == 5
TypeModule == 6
TypeModule2 == 7
TypeHashZipMap == 9
TypeListZipList == 10
TypeSetIntSet == 11
TypeZsetZipList == 12
TypeHashZipList == 13
TypeListQuickList == 14
TypeStreamListPacks == 15

FlagOpcodeIdle == 248
FlagOpcodeFreq == 249
FlagOpcodeAux == 250
FlagOpcodeResizeDB == 251
FlagOpcodeExpireTimeMs == 252
FlagOpcodeExpireTime == 253
FlagOpcodeSelectDB == 254
FlagOpcodeEOF == 255

Type6Bit == 0
Type14Bit == 1
Type32Bit == 128
Type64Bit == 129
TypeEncVal == 3

EncodeInt8 == 0
EncodeInt16 == 1
EncodeInt32 == 2
EncodeLZF == 3

VersionMin == 1
VersionMax == 9

\* ------------------------------------------------------------ error values
Nil == "nil"
ErrEOF == "EOF"
ErrUnexpectedEOF == "unexpected EOF"
ErrLenEncoding == "unknown length encoding"
ErrStringEncode == "unknown string encode type"
ErrStreams == "streams are not supported"
ErrModules == "modules are not supported"
ErrUnhandled == "unhandled redis type"
ErrHeader == "invalid header"
ErrDest == "destination error"
ErrPanic == "panic"
ErrParseFloat == "strconv.ParseFloat: invalid syntax"

\* ------------------------------------------------------- integer arithmetic
\* Values wider than TLC's integers are kept as byte sequences.

Byte == 0..255

\* a uint64 too large to be a slice length or a loop bound that terminates
Huge == 2147483646 + 1

RECURSIVE Rev(_)
Rev(s) == IF s = <<>> THEN <<>> ELSE Rev(Tail(s)) \o <<Head(s)>>

RECURSIVE IsZero(_)
IsZero(s) == s = <<>> \/ (Head(s) = 0 /\ IsZero(Tail(s)))

\* binary.BigEndian.UintNN / uint64(...) of big-endian bytes, Huge from 2^31 on
RECURSIVE BigEndianAcc(_, _)
BigEndianAcc(be, acc) ==
    IF be = <<>> THEN acc
    ELSE IF acc >= 8388608 THEN Huge
    ELSE BigEndianAcc(Tail(be), acc * 256 + Head(be))

BigEndian(be) == BigEndianAcc(be, 0)

\* long division of big-endian bytes by 10: quotient bytes and remainder
RECURSIVE Div10(_, _, _)
Div10(be, rem, q) ==
    IF be = <<>> THEN [q |-> q, rem |-> rem]
    ELSE LET cur == rem * 256 + Head(be)
         IN  Div10(Tail(be), cur % 10, q \o <<cur \div 10>>)

RECURSIVE DecDigits(_)
DecDigits(be) ==
    IF IsZero(be) THEN <<>>
    ELSE LET d == Div10(be, 0, <<>>) IN DecDigits(d.q) \o <<48 + d.rem>>

\* strconv.Itoa of a non-negative int given as little-endian bytes
Itoa(le) == IF IsZero(le) THEN <<48>> ELSE DecDigits(Rev(le))

\* x * m mod 2^(8*Len(le)) on little-endian bytes
RECURSIVE MulLE(_, _, _)
MulLE(le, m, carry) ==
    IF le = <<>> THEN <<>>
    ELSE LET cur == Head(le) * m + carry
         IN  <<cur % 256>> \o MulLE(Tail(le), m, cur \div 256)

\* two's complement negation of little-endian bytes
RECURSIVE Negate(_, _)
Negate(le, carry) ==
    IF le = <<>> THEN <<>>
    ELSE LET cur == (255 - Head(le)) + carry
         IN  <<cur % 256>> \o Negate(Tail(le), cur \div 256)

\* strconv.FormatInt(int64(intN(x)), 10): the signed value of little-endian
\* bytes, in ASCII decimal
FormatInt(le) ==
    IF le[Len(le)] >= 128 THEN <<45>> \o DecDigits(Rev(Negate(le, 1)))
    ELSE Itoa(le)

\* binary.LittleEndian.UintNN as a number, Huge from 2^31 on
LittleEndian(le) == BigEndian(Rev(le))

Int64Zero == <<0, 0, 0, 0, 0, 0, 0, 0>>
Int64MinusOne == <<255, 255, 255, 255, 255, 255, 255, 255>>

\* expire > 0 on an int64 given as 8 little-endian bytes
Int64Positive(le) == le[8] < 128 /\ ~IsZero(le)

\* ------------------------------------------------------ stream primitives
\* A reader state s is [pos, i]: the position in the stream and r.i.  Every
\* primitive returns the reader state after it, err, and what it read.

\* io.ReadFull(r.buf, p) with len(p) = k; the caller adds n to r.i
ReadFull(s, k) ==
    LET avail == Len(stream) - s.pos
        n == IF k <= avail THEN k ELSE avail
    IN  [pos |-> s.pos + n, i |-> s.i, n |-> n,
         p |-> SubSeq(stream, s.pos + 1, s.pos + n),
         err |-> IF n = k THEN Nil
                 ELSE IF n = 0 THEN ErrEOF ELSE ErrUnexpectedEOF]

loadByte(s) ==
    IF s.pos >= Len(stream)
    THEN [pos |-> s.pos, i |-> s.i, err |-> ErrEOF, buf |-> 0]
    ELSE [pos |-> s.pos + 1, i |-> s.i + 1, err |-> Nil,
          buf |-> stream[s.pos + 1]]

\* Bind(v, F) is F(v): the value v under the name F gives it
Bind(v, F(_)) == F(v)

LenResult(s, i, e, length, isEncode) ==
    [pos |-> s.pos, i |-> i, err |-> e, length |-> length, isEncode |-> isEncode]

\* loadLen without its last branch: a reserved first byte read as a 6-bit length
loadLenReservedAs6Bit(s) ==
    Bind(loadByte(s), LAMBDA b :
        IF b.err # Nil THEN LenResult(b, b.i, b.err, 0, FALSE)
        ELSE IF b.buf \div 64 = TypeEncVal \/ b.buf \div 64 = Type6Bit
        THEN LenResult(b, b.i, Nil, b.buf % 64, b.buf \div 64 = TypeEncVal)
        ELSE IF b.buf \div 64 = Type14Bit
        THEN Bind(loadByte(b), LAMBDA nb :
                 IF nb.err # Nil THEN LenResult(nb, nb.i, nb.err, 0, FALSE)
                 ELSE LenResult(nb, nb.i, Nil, (b.buf % 64) * 256 + nb.buf, FALSE))
        ELSE IF b.buf = Type32Bit
        THEN Bind(ReadFull(b, 4), LAMBDA f :
                 IF f.err # Nil THEN LenResult(f, b.i, f.err, 0, FALSE)
                 ELSE LenResult(f, b.i + f.n, Nil, BigEndian(f.p), FALSE))
        ELSE IF b.buf = Type64Bit
        THEN Bind(ReadFull(b, 8), LAMBDA f :
                 IF f.err # Nil THEN LenResult(f, b.i, f.err, 0, FALSE)
                 ELSE LenResult(f, b.i + f.n, Nil, BigEndian(f.p), FALSE))
        ELSE LenResult(b, b.i, Nil, b.buf % 64, FALSE))

\* loadLen taking the second byte of a 14-bit length as its high part
loadLen14BitSwapped(s) ==
    Bind(loadByte(s), LAMBDA b :
        IF b.err # Nil THEN LenResult(b, b.i, b.err, 0, FALSE)
        ELSE IF b.buf \div 64 = TypeEncVal \/ b.buf \div 64 = Type6Bit
        THEN LenResult(b, b.i, Nil, b.buf % 64, b.buf \div 64 = TypeEncVal)
        ELSE IF b.buf \div 64 = Type14Bit
        THEN Bind(loadByte(b), LAMBDA nb :
                 IF nb.err # Nil THEN LenResult(nb, nb.i, nb.err, 0, FALSE)
                 ELSE LenResult(nb, nb.i, Nil, nb.buf * 64 + (b.buf % 64), FALSE))
        ELSE IF b.buf = Type32Bit
        THEN Bind(ReadFull(b, 4), LAMBDA f :
                 IF f.err # Nil THEN LenResult(f, b.i, f.err, 0, FALSE)
                 ELSE LenResult(f, b.i + f.n, Nil, BigEndian(f.p), FALSE))
        ELSE IF b.buf = Type64Bit
        THEN Bind(ReadFull(b, 8), LAMBDA f :
                 IF f.err # Nil THEN LenResult(f, b.i, f.err, 0, FALSE)
                 ELSE LenResult(f, b.i + f.n, Nil, BigEndian(f.p), FALSE))
        ELSE LenResult(b, b.i, ErrLenEncoding, 0, FALSE))

loadLen(s) ==
    Bind(loadByte(s), LAMBDA b :
        IF b.err # Nil THEN LenResult(b, b.i, b.err, 0, FALSE)
        ELSE IF b.buf \div 64 = TypeEncVal \/ b.buf \div 64 = Type6Bit
        THEN LenResult(b, b.i, Nil, b.buf % 64, b.buf \div 64 = TypeEncVal)
        ELSE IF b.buf \div 64 = Type14Bit
        THEN Bind(loadByte(b), LAMBDA nb :
                 IF nb.err # Nil THEN LenResult(nb, nb.i, nb.err, 0, FALSE)
                 ELSE LenResult(nb, nb.i, Nil, (b.buf % 64) * 256 + nb.buf, FALSE))
        ELSE IF b.buf = Type32Bit
        THEN Bind(ReadFull(b, 4), LAMBDA f :
                 IF f.err # Nil THEN LenResult(f, b.i, f.err, 0, FALSE)
                 ELSE LenResult(f, b.i + f.n, Nil, BigEndian(f.p), FALSE))
        ELSE IF b.buf = Type64Bit
        THEN Bind(ReadFull(b, 8), LAMBDA f :
                 IF f.err # Nil THEN LenResult(f, b.i, f.err, 0, FALSE)
                 ELSE LenResult(f, b.i + f.n, Nil, BigEndian(f.p), FALSE))
        ELSE LenResult(b, b.i, ErrLenEncoding, 0, FALSE))

\* loadUint16 / loadUint32 / loadUint64: res as little-endian bytes
UintResult(s, i, e, res) == [pos |-> s.pos, i |-> i, err |-> e, res |-> res]

loadUint16(s) ==
    Bind(ReadFull(s, 2), LAMBDA f :
        IF f.err # Nil THEN UintResult(f, s.i, f.err, <<0, 0>>)
        ELSE UintResult(f, s.i + 2, Nil, f.p))

loadUint32(s) ==
    Bind(ReadFull(s, 4), LAMBDA f :
        IF f.err # Nil THEN UintResult(f, s.i, f.err, <<0, 0, 0, 0>>)
        ELSE UintResult(f, s.i + 4, Nil, f.p))

loadUint64(s) ==
    Bind(ReadFull(s, 8), LAMBDA f :
        IF f.err # Nil THEN UintResult(f, s.i, f.err, Int64Zero)
        ELSE UintResult(f, s.i + 8, Nil, f.p))

\* ------------------------------------------------------------- LZF strings
\* lzfDecompress: control byte c, ctrl = c >> 5, low5 = c & 31.  ctrl = 0 is a
\* literal run of low5 + 1 bytes; otherwise a back-reference of length
\* ctrl (+ the next byte when ctrl = 7) + 2 at offset (low5 << 8 | next) + 1
\* behind the output written so far.
RECURSIVE lzfCopy(_, _, _)
lzfCopy(out, from, length) ==
    IF length = 0 THEN out
    ELSE lzfCopy(Append(out, out[from]), from + 1, length - 1)

RECURSIVE lzfWalk(_, _, _)
lzfWalk(in, k, out) ==
    IF k > Len(in) THEN [ok |-> TRUE, out |-> out]
    ELSE LET ctrl == in[k] \div 32
             low5 == in[k] % 32
             ext == IF ctrl = 7 THEN 1 ELSE 0
         IN  IF ctrl = 0
             THEN IF k + low5 + 1 > Len(in) THEN [ok |-> FALSE, out |-> out]
                  ELSE lzfWalk(in, k + low5 + 2,
                               out \o SubSeq(in, k + 1, k + low5 + 1))
             ELSE IF k + 1 + ext > Len(in) THEN [ok |-> FALSE, out |-> out]
             ELSE LET length == ctrl + (IF ctrl = 7 THEN in[k + 1] ELSE 0) + 2
                      offset == low5 * 256 + in[k + 1 + ext] + 1
                  IN  IF offset > Len(out) THEN [ok |-> FALSE, out |-> out]
                      ELSE lzfWalk(in, k + 2 + ext,
                                   lzfCopy(out, Len(out) - offset + 1, length))

\* returns exactly ulength bytes; anything else is a run-time panic
lzfDecompress(val, ilength, ulength) ==
    Bind(lzfWalk(val, 1, <<>>), LAMBDA w :
        IF w.ok /\ Len(w.out) = ulength THEN [err |-> Nil, res |-> w.out]
        ELSE [err |-> ErrPanic, res |-> <<>>])

StrResult(s, i, e, res) == [pos |-> s.pos, i |-> i, err |-> e, res |-> res]

loadLZF(s) ==
    Bind(loadLen(s), LAMBDA il :
        IF il.err # Nil THEN StrResult(il, il.i, il.err, <<>>)
        ELSE Bind(loadLen(il), LAMBDA ul :
            IF ul.err # Nil THEN StrResult(ul, ul.i, ul.err, <<>>)
            ELSE Bind(ReadFull(ul, il.length), LAMBDA f :
                IF f.err # Nil THEN StrResult(f, ul.i, f.err, <<>>)
                ELSE Bind(lzfDecompress(f.p, il.length, ul.length), LAMBDA d :
                    StrResult(f, ul.i + f.n, d.err, d.res)))))

\* loadString returns the bytes of the string; the integer encodings are
\* spelled by strconv.Itoa(int(b)) of the unsigned byte, uint16 or uint32 read
loadString(s) ==
    Bind(loadLen(s), LAMBDA l :
        IF l.err # Nil THEN StrResult(l, l.i, l.err, <<>>)
        ELSE IF l.isEncode
        THEN CASE l.length = EncodeInt8 ->
                    Bind(loadByte(l), LAMBDA b :
                        StrResult(b, b.i, b.err, Itoa(<<b.buf>>)))
               [] l.length = EncodeInt16 ->
                    Bind(loadUint16(l), LAMBDA b :
                        StrResult(b, b.i, b.err, Itoa(b.res)))
               [] l.length = EncodeInt32 ->
                    Bind(loadUint32(l), LAMBDA b :
                        StrResult(b, b.i, b.err, Itoa(b.res)))
               [] l.length = EncodeLZF -> loadLZF(l)
               [] OTHER -> StrResult(l, l.i, ErrStringEncode, <<>>)
        ELSE Bind(ReadFull(l, l.length), LAMBDA f :
                 StrResult(f, l.i + f.n, f.err, f.p)))

\* ------------------------------------------------------------ destination
\* The destination is d = [db, data, sent]: the connection's selected
\* database, the keyspace and the commands received.  A reply is
\* [kind, val] with kind "neterr" (the connection failed), "error" (an error
\* reply), "status", "int" or "bulk".

\* A float64 is kept as a token: <<0>> \o the ASCII bytes it was parsed from,
\* <<1>> \o its 8 IEEE-754 bytes (little-endian), or one of NegInf, PosInf, Nan.
NegInf == <<2>>
PosInf == <<3>>
Nan == <<4>>

Lower(b) == IF b >= 65 /\ b <= 90 THEN b + 32 ELSE b
LowerAll(s) == [k \in 1..Len(s) |-> Lower(s[k])]

IsNaN(f) ==
    \/ f = Nan
    \/ f[1] = 0 /\ LowerAll(Tail(f)) = <<110, 97, 110>>
    \/ f[1] = 1 /\ f[9] % 128 = 127 /\ f[8] >= 240
               /\ ~(f[8] = 240 /\ IsZero(SubSeq(f, 2, 7)))

Reply(kind, val) == [kind |-> kind, val |-> val]

Put(f, k, v) == [x \in DOMAIN f \cup {k} |-> IF x = k THEN v ELSE f[x]]

RECURSIVE SeqToSet(_)
SeqToSet(s) == IF s = <<>> THEN {} ELSE {Head(s)} \cup SeqToSet(Tail(s))

\* the elements at odd positions (fields, or scores) and at even positions
RECURSIVE Odds(_)
Odds(s) == IF Len(s) < 2 THEN <<>> ELSE <<s[1]>> \o Odds(SubSeq(s, 3, Len(s)))
RECURSIVE Evens(_)
Evens(s) == IF Len(s) < 2 THEN <<>> ELSE <<s[2]>> \o Evens(SubSeq(s, 3, Len(s)))

HoldsOther(d, k, type) == k \in DOMAIN d.data /\ d.data[k].type # type

Old(d, k, empty) == IF k \in DOMAIN d.data THEN d.data[k].val ELSE empty

\* what a Redis server does with one command on database d.db
Execute(d, cmd, args) ==
    LET k == <<d.db, args[1]>>
        rest == Tail(args)
        store(type, val) == [d EXCEPT !.data = Put(d.data, k, [type |-> type, val |-> val])]
    IN  CASE cmd = "SELECT" ->
                [d |-> [d EXCEPT !.db = args[1]], rep |-> Reply("status", "OK")]
          [] cmd = "SET" ->
                [d |-> store("string", args[2]), rep |-> Reply("status", "OK")]
          [] cmd = "RPUSH" ->
                IF rest = <<>> \/ HoldsOther(d, k, "list")
                THEN [d |-> d, rep |-> Reply("error", "ERR")]
                ELSE LET new == Old(d, k, <<>>) \o rest
                     IN  [d |-> store("list", new), rep |-> Reply("int", Len(new))]
          [] cmd = "SADD" ->
                IF rest = <<>> \/ HoldsOther(d, k, "set")
                THEN [d |-> d, rep |-> Reply("error", "ERR")]
                ELSE LET old == Old(d, k, {})
                         new == old \cup SeqToSet(rest)
                     IN  [d |-> store("set", new),
                          rep |-> Reply("int", Cardinality(new) - Cardinality(old))]
          [] cmd = "HSET" ->
                IF rest = <<>> \/ Len(rest) % 2 # 0 \/ HoldsOther(d, k, "hash")
                THEN [d |-> d, rep |-> Reply("error", "ERR")]
                ELSE LET old == Old(d, k, {})
                         new == old \cup SeqToSet(Odds(rest))
                     IN  [d |-> store("hash", new),
                          rep |-> Reply("int", Cardinality(new) - Cardinality(old))]
          [] cmd = "ZADD" ->
                IF rest = <<>> \/ Len(rest) % 2 # 0 \/ HoldsOther(d, k, "zset")
                   \/ \E f \in SeqToSet(Odds(rest)) : IsNaN(f)
                THEN [d |-> d, rep |-> Reply("error", "ERR")]
                ELSE LET old == Old(d, k, {})
                         new == old \cup SeqToSet(Evens(rest))
                     IN  [d |-> store("zset", new),
                          rep |-> Reply("int", Cardinality(new) - Cardinality(old))]
          [] cmd = "PEXPIREAT" ->
                [d |-> d, rep |-> Reply("int", IF k \in DOMAIN d.data THEN 1 ELSE 0)]
          [] OTHER ->
                \* "SCRIPT LOAD" goes out as one command name: no such command
                [d |-> d, rep |-> Reply("error", "ERR unknown command")]

\* a connection that met a network error stays broken
Broken(d) == d.sent # <<>> /\ d.sent[Len(d.sent)].rep.kind = "neterr"

\* r.conn.Do(cmd, args...): fail > 0 is the index in d.sent of the command
\* the connection breaks on, fail < 0 the negated index of the command the
\* destination rejects with an error reply (0: neither)
Do(d, cmd, args, fail) ==
    Bind(IF Broken(d) \/ Len(d.sent) + 1 = fail
         THEN [d |-> d, rep |-> Reply("neterr", "")]
         ELSE IF Len(d.sent) + 1 = 0 - fail
         THEN [d |-> d, rep |-> Reply("error", "ERR")]
         ELSE Execute(d, cmd, args), LAMBDA x :
        [d |-> [x.d EXCEPT !.sent = Append(d.sent,
                    [cmd |-> cmd, args |-> args, rep |-> x.rep, db |-> d.db])],
         rep |-> x.rep])

\* redigo.String(reply, err) and redigo.Int(reply, err)
redigoString(rep) ==
    IF rep.kind \in {"status", "bulk"} THEN [err |-> Nil, val |-> rep.val]
    ELSE [err |-> ErrDest, val |-> ""]

redigoInt(rep) ==
    IF rep.kind = "int" THEN [err |-> Nil, val |-> rep.val]
    ELSE [err |-> ErrDest, val |-> 0]

\* ------------------------------------------------------------ value loaders
\* A loader takes the reader state s = [pos, i], the destination d and fail,
\* and returns [pos, i, err, d].

Out(s, i, e, d) == [pos |-> s.pos, i |-> i, err |-> e, d |-> d]

Ent(s, e, ent) == [pos |-> s.pos, i |-> s.i, err |-> e, ent |-> ent]

ErrForward == "destination did not confirm the write"

\* the loop `for i := 0; i < length; i++ { loadString }`: the strings read,
\* stopping at the first error
RECURSIVE loadStrings(_, _, _)
loadStrings(s, count, acc) ==
    IF count = 0 THEN Ent(s, Nil, acc)
    ELSE Bind(loadString(s), LAMBDA v :
             IF v.err # Nil THEN Ent(v, v.err, acc)
             ELSE loadStrings(v, count - 1, Append(acc, v.res)))

\* Forward without the comparison of the reply with the count
ForwardIgnoresCount(s, d, cmd, key, ent, count, fail) ==
    Bind(Do(d, cmd, <<key>> \o ent, fail), LAMBDA x :
        Bind(redigoInt(x.rep), LAMBDA n :
            IF n.err # Nil THEN Out(s, s.i, ErrForward, x.d)
            ELSE Out(s, s.i, Nil, x.d)))

\* the tail shared by the multi-argument loaders: send cmd key ent..., and
\* fail unless the integer reply is the expected count
Forward(s, d, cmd, key, ent, count, fail) ==
    Bind(Do(d, cmd, <<key>> \o ent, fail), LAMBDA x :
        Bind(redigoInt(x.rep), LAMBDA n :
            IF n.err # Nil \/ count # n.val THEN Out(s, s.i, ErrForward, x.d)
            ELSE Out(s, s.i, Nil, x.d)))

loadList(s, d, key, fail) ==
    Bind(loadLen(s), LAMBDA l :
        IF l.err # Nil THEN Out(l, l.i, l.err, d)
        ELSE Bind(loadStrings(l, l.length, <<>>), LAMBDA e :
            IF e.err # Nil THEN Out(e, e.i, e.err, d)
            ELSE Forward(e, d, "RPUSH", key, e.ent, l.length, fail)))

loadSet(s, d, key, fail) ==
    Bind(loadLen(s), LAMBDA l :
        IF l.err # Nil THEN Out(l, l.i, l.err, d)
        ELSE Bind(loadStrings(l, l.length, <<>>), LAMBDA e :
            IF e.err # Nil THEN Out(e, e.i, e.err, d)
            ELSE Forward(e, d, "SADD", key, e.ent, l.length, fail)))

\* the loop of loadHashMap: field, value, field, value, ...
RECURSIVE loadPairs(_, _, _)
loadPairs(s, count, acc) ==
    IF count = 0 THEN Ent(s, Nil, acc)
    ELSE Bind(loadString(s), LAMBDA f :
             IF f.err # Nil THEN Ent(f, f.err, acc)
             ELSE Bind(loadString(f), LAMBDA v :
                 IF v.err # Nil THEN Ent(v, v.err, acc)
                 ELSE loadPairs(v, count - 1, acc \o <<f.res, v.res>>)))

loadHashMap(s, d, key, fail) ==
    Bind(loadLen(s), LAMBDA l :
        IF l.err # Nil THEN Out(l, l.i, l.err, d)
        ELSE Bind(loadPairs(l, l.length, <<>>), LAMBDA e :
            IF e.err # Nil THEN Out(e, e.i, e.err, d)
            ELSE Forward(e, d, "HSET", key, e.ent, l.length, fail)))

\* strconv.ParseFloat(s, 64) accepts s: a decimal floating-point literal with
\* an optional sign and exponent, or inf, infinity, nan in any case (inf may
\* be signed).  The automaton's states: 0 start, 1 signed, 2 integer digits,
\* 3 "digits.", 4 ".", 5 fraction digits, 6 "e", 7 "e+", 8 exponent digits.
IsDigit(b) == b >= 48 /\ b <= 57

FloatStep(q, b) ==
    CASE q = 0 /\ b \in {43, 45} -> 1
      [] q \in {0, 1, 2} /\ IsDigit(b) -> 2
      [] q \in {0, 1} /\ b = 46 -> 4
      [] q = 2 /\ b = 46 -> 3
      [] q \in {3, 4, 5} /\ IsDigit(b) -> 5
      [] q \in {2, 3, 5} /\ b \in {69, 101} -> 6
      [] q = 6 /\ b \in {43, 45} -> 7
      [] q \in {6, 7, 8} /\ IsDigit(b) -> 8
      [] OTHER -> 9

RECURSIVE FloatRun(_, _)
FloatRun(q, s) == IF s = <<>> THEN q ELSE FloatRun(FloatStep(q, Head(s)), Tail(s))

ParseFloatOK(s) ==
    LET u == LowerAll(IF s # <<>> /\ s[1] \in {43, 45} THEN Tail(s) ELSE s)
    IN  \/ FloatRun(0, s) \in {2, 3, 5, 8}
        \/ u \in {<<105, 110, 102>>, <<105, 110, 102, 105, 110, 105, 116, 121>>}
        \/ LowerAll(s) = <<110, 97, 110>>

FloatResult(s, i, e, f) == [pos |-> s.pos, i |-> i, err |-> e, f |-> f]

loadFloat(s) ==
    Bind(loadByte(s), LAMBDA b :
        IF b.err # Nil THEN FloatResult(b, b.i, b.err, <<0>>)
        ELSE IF b.buf = 255 THEN FloatResult(b, b.i, Nil, NegInf)
        ELSE IF b.buf = 254 THEN FloatResult(b, b.i, Nil, PosInf)
        ELSE IF b.buf = 253 THEN FloatResult(b, b.i, Nil, Nan)
        ELSE Bind(ReadFull(b, b.buf), LAMBDA f :
            IF f.err # Nil THEN FloatResult(f, b.i, f.err, <<0>>)
            ELSE IF ~ParseFloatOK(f.p)
            THEN FloatResult(f, b.i + f.n, ErrParseFloat, <<0>>)
            ELSE FloatResult(f, b.i + f.n, Nil, <<0>> \o f.p)))

loadBinaryFloat(s) ==
    Bind(ReadFull(s, 8), LAMBDA f :
        IF f.err # Nil THEN FloatResult(f, s.i, f.err, <<0>>)
        ELSE FloatResult(f, s.i + f.n, Nil, <<1>> \o f.p))

\* the loop of loadZSet: member, score, ... appended as score, member
RECURSIVE loadScored(_, _, _, _)
loadScored(s, t, count, acc) ==
    IF count = 0 THEN Ent(s, Nil, acc)
    ELSE Bind(loadString(s), LAMBDA m :
             IF m.err # Nil THEN Ent(m, m.err, acc)
             ELSE Bind(IF t = TypeZset2 THEN loadBinaryFloat(m) ELSE loadFloat(m),
                       LAMBDA sc :
                 IF sc.err # Nil THEN Ent(sc, sc.err, acc)
                 ELSE loadScored(sc, t, count - 1, acc \o <<sc.f, m.res>>)))

loadZSet(s, d, key, t, fail) ==
    Bind(loadLen(s), LAMBDA l :
        IF l.err # Nil THEN Out(l, l.i, l.err, d)
        ELSE Bind(loadScored(l, t, l.length, <<>>), LAMBDA e :
            IF e.err # Nil THEN Out(e, e.i, e.err, d)
            ELSE Forward(e, d, "ZADD", key, e.ent, l.length, fail)))

\* -------------------------------------------------------------- byte cursor
\* input: buf = [data, index].  Every operation returns [buf, err, v].
ErrWhence == "invalid whence"
ErrNegative == "negative position"
ErrRange == "position out of range"
ErrZiplistHeader == "rdb: unknown ziplist header byte"
ErrZipmapLength == "invalid zipmap item length"
ErrIntset == "unknown intset encoding"

newInput(data) == [data |-> data, index |-> 0]

In(buf, e, v) == [buf |-> buf, err |-> e, v |-> v]

\* what a call on the cursor returned: the integers it was given and the
\* bytes (or the one number) it returned
Ret(op, arg, e, v) == [op |-> op, arg |-> arg, err |-> e, v |-> v]

\* no cursor under test
NoCursor == input = newInput(<<>>) /\ ret = Ret("newInput", <<>>, Nil, <<>>)

\* buff = make([]byte, 8), and no decoder beside the run
NoDecoders == buff = <<0, 0, 0, 0, 0, 0, 0, 0>> /\ dec = <<>>

\* no Psync running
NoPsync == psync = [ctx |-> "none", go |-> "none", log |-> "none",
                    conn |-> "none", lines |-> 0, printed |-> 0, notices |-> 0]

Slice(buf, n) ==
    IF n > Len(buf.data) - buf.index THEN In(buf, ErrEOF, <<>>)
    ELSE In([buf EXCEPT !.index = buf.index + n], Nil,
            SubSeq(buf.data, buf.index + 1, buf.index + n))

ReadByte(buf) ==
    IF buf.index >= Len(buf.data) THEN In(buf, ErrEOF, 0)
    ELSE In([buf EXCEPT !.index = buf.index + 1], Nil, buf.data[buf.index + 1])

\* Read(b) with len(b) = k: copies what is there, at most k bytes; v is b
\* after the copy (b was all zero before it)
Read(buf, k) ==
    LET n == IF Len(buf.data) - buf.index < k THEN Len(buf.data) - buf.index ELSE k
    IN  IF k = 0 THEN In(buf, Nil, <<>>)
        ELSE IF buf.index >= Len(buf.data) THEN In(buf, ErrEOF, [x \in 1..k |-> 0])
        ELSE In([buf EXCEPT !.index = buf.index + n], Nil,
                [x \in 1..k |-> IF x <= n THEN buf.data[buf.index + x] ELSE 0])

\* Seek(offset, whence); offset is at most Huge, positions from 2^31 on are
\* out of range
Seek(buf, offset, whence) ==
    LET base == CASE whence = 0 -> 0
                  [] whence = 1 -> buf.index
                  [] whence = 2 -> Len(buf.data)
                  [] OTHER -> 0
    IN  IF whence \notin {0, 1, 2} THEN In(buf, ErrWhence, 0)
        ELSE IF offset < 0 /\ base + offset < 0 THEN In(buf, ErrNegative, 0)
        ELSE IF offset > 0 /\ offset > Huge - base THEN In(buf, ErrRange, 0)
        ELSE In([buf EXCEPT !.index = base + offset], Nil, base + offset)

\* ------------------------------------------------------------------ ziplist
ZipStr06B == 0
ZipStr14B == 1
ZipStr32B == 2
ZipInt04B == 15
ZipInt08B == 254
ZipInt16B == 192
ZipInt24B == 240
ZipInt32B == 208
ZipInt64B == 224
ZipBigPrevLen == 254

\* buf.Seek(8, 0), its result dropped, then the uint16 at the cursor
loadZiplistLength(buf) ==
    Bind(Slice(Seek(buf, 8, 0).buf, 2), LAMBDA l :
        IF l.err # Nil THEN In(l.buf, l.err, 0)
        ELSE In(l.buf, Nil, LittleEndian(l.v)))

\* the entry after the prev-len field: h is the header byte read
ziplistPayload(h) ==
    IF h.err # Nil THEN In(h.buf, h.err, <<>>)
    ELSE IF h.v \div 64 = ZipStr06B THEN Slice(h.buf, h.v % 64)
    ELSE IF h.v \div 64 = ZipStr14B
    THEN Bind(ReadByte(h.buf), LAMBDA b :
             IF b.err # Nil THEN In(b.buf, b.err, <<>>)
             ELSE Slice(b.buf, (h.v % 64) * 256 + b.v))
    ELSE IF h.v \div 64 = ZipStr32B
    THEN Bind(Slice(h.buf, 4), LAMBDA l :
             IF l.err # Nil THEN In(l.buf, l.err, <<>>)
             ELSE Slice(l.buf, BigEndian(l.v)))
    ELSE IF h.v = ZipInt08B
    THEN Bind(ReadByte(h.buf), LAMBDA b : In(b.buf, b.err, FormatInt(<<b.v>>)))
    ELSE IF h.v \in {ZipInt16B, ZipInt32B, ZipInt64B}
    THEN Bind(Slice(h.buf, CASE h.v = ZipInt16B -> 2
                             [] h.v = ZipInt32B -> 4
                             [] h.v = ZipInt64B -> 8), LAMBDA x :
             IF x.err # Nil THEN In(x.buf, x.err, <<>>)
             ELSE In(x.buf, Nil, FormatInt(x.v)))
    ELSE IF h.v = ZipInt24B
    THEN Bind(Read(h.buf, 3), LAMBDA x :
             IF x.err # Nil THEN In(x.buf, x.err, <<>>)
             ELSE In(x.buf, Nil, FormatInt(x.v)))
    ELSE IF h.v \div 16 = ZipInt04B
    THEN In(h.buf, Nil, Itoa(<<(h.v % 16) - 1>>))
    ELSE In(h.buf, ErrZiplistHeader, <<>>)

loadZiplistEntry(buf) ==
    Bind(ReadByte(buf), LAMBDA prevLen :
        IF prevLen.err # Nil THEN In(prevLen.buf, prevLen.err, <<>>)
        ELSE ziplistPayload(ReadByte(IF prevLen.v = ZipBigPrevLen
                                     THEN Seek(prevLen.buf, 4, 1).buf
                                     ELSE prevLen.buf)))

\* count calls of loadZiplistEntry, stopping at the first error
RECURSIVE loadZiplistEntries(_, _, _)
loadZiplistEntries(buf, count, acc) ==
    IF count = 0 THEN In(buf, Nil, acc)
    ELSE Bind(loadZiplistEntry(buf), LAMBDA e :
             IF e.err # Nil THEN In(e.buf, e.err, acc)
             ELSE loadZiplistEntries(e.buf, count - 1, Append(acc, e.v)))

\* rdb.loadZipList: [pos, i, err, items]
Items(s, e, its) == [pos |-> s.pos, i |-> s.i, err |-> e, items |-> its]

loadZipList(s) ==
    Bind(loadString(s), LAMBDA b :
        IF b.err # Nil THEN Items(b, b.err, <<>>)
        ELSE Bind(loadZiplistLength(newInput(b.res)), LAMBDA l :
            IF l.err # Nil THEN Items(b, l.err, <<>>)
            ELSE Bind(loadZiplistEntries(l.buf, l.v, <<>>), LAMBDA e :
                Items(b, e.err, e.v))))

loadListWithZipList(s, d, key, fail) ==
    Bind(loadZipList(s), LAMBDA e :
        IF e.err # Nil THEN Out(e, e.i, e.err, d)
        ELSE Forward(e, d, "RPUSH", key, e.items, Len(e.items), fail))

\* the loop of loadListWithQuickList: one RPUSH per ziplist
RECURSIVE quickListLoop(_, _, _, _, _)
quickListLoop(s, d, key, count, fail) ==
    IF count = 0 THEN Out(s, s.i, Nil, d)
    ELSE Bind(loadZipList(s), LAMBDA e :
             IF e.err # Nil THEN Out(e, e.i, e.err, d)
             ELSE Bind(Forward(e, d, "RPUSH", key, e.items, Len(e.items), fail),
                       LAMBDA w :
                 IF w.err # Nil THEN w
                 ELSE quickListLoop(w, w.d, key, count - 1, fail)))

loadListWithQuickList(s, d, key, fail) ==
    Bind(loadLen(s), LAMBDA l :
        IF l.err # Nil THEN Out(l, l.i, l.err, d)
        ELSE quickListLoop(l, d, key, l.length, fail))

\* the loop of loadHashMapZiplist: field, value, ...
RECURSIVE hashZiplistLoop(_, _, _)
hashZiplistLoop(buf, count, acc) ==
    IF count = 0 THEN In(buf, Nil, acc)
    ELSE Bind(loadZiplistEntry(buf), LAMBDA field :
             IF field.err # Nil THEN In(field.buf, field.err, acc)
             ELSE Bind(loadZiplistEntry(field.buf), LAMBDA value :
                 IF value.err # Nil THEN In(value.buf, value.err, acc)
                 ELSE hashZiplistLoop(value.buf, count - 1,
                                      acc \o <<field.v, value.v>>)))

loadHashMapZiplist(s, d, key, fail) ==
    Bind(loadString(s), LAMBDA b :
        IF b.err # Nil THEN Out(b, b.i, b.err, d)
        ELSE Bind(loadZiplistLength(newInput(b.res)), LAMBDA l :
            IF l.err # Nil THEN Out(b, b.i, l.err, d)
            ELSE Bind(hashZiplistLoop(l.buf, l.v \div 2, <<>>), LAMBDA e :
                IF e.err # Nil THEN Out(b, b.i, e.err, d)
                ELSE Forward(b, d, "HSET", key, e.v, l.v \div 2, fail))))

\* the loop of loadZipListSortSet: member, score, appended as score, member
RECURSIVE sortSetLoop(_, _, _)
sortSetLoop(buf, count, acc) ==
    IF count = 0 THEN In(buf, Nil, acc)
    ELSE Bind(loadZiplistEntry(buf), LAMBDA member :
             IF member.err # Nil THEN In(member.buf, member.err, acc)
             ELSE Bind(loadZiplistEntry(member.buf), LAMBDA scoreBytes :
                 IF scoreBytes.err # Nil THEN In(scoreBytes.buf, scoreBytes.err, acc)
                 ELSE IF ~ParseFloatOK(scoreBytes.v)
                 THEN In(scoreBytes.buf, ErrParseFloat, acc)
                 ELSE sortSetLoop(scoreBytes.buf, count - 1,
                                  acc \o <<<<0>> \o scoreBytes.v, member.v>>)))

loadZipListSortSet(s, d, key, fail) ==
    Bind(loadString(s), LAMBDA b :
        IF b.err # Nil THEN Out(b, b.i, b.err, d)
        ELSE Bind(loadZiplistLength(newInput(b.res)), LAMBDA l :
            IF l.err # Nil THEN Out(b, b.i, l.err, d)
            ELSE Bind(sortSetLoop(l.buf, l.v \div 2, <<>>), LAMBDA e :
                IF e.err # Nil THEN Out(b, b.i, e.err, d)
                ELSE Forward(b, d, "ZADD", key, e.v, l.v \div 2, fail))))

\* ------------------------------------------------------------------- zipmap
\* loadZipmapItemLength: [buf, err, length, free]; length -1 is the terminator
ZmLen(buf, e, length, free) == [buf |-> buf, err |-> e, length |-> length, free |-> free]

loadZipmapItemLength(buf, readFree) ==
    Bind(ReadByte(buf), LAMBDA b :
        IF b.err # Nil THEN ZmLen(b.buf, b.err, 0, 0)
        ELSE IF b.v = 253
        THEN Bind(Slice(b.buf, 5), LAMBDA x :
                 IF x.err # Nil THEN ZmLen(x.buf, x.err, 0, 0)
                 ELSE ZmLen(x.buf, Nil, BigEndian(SubSeq(x.v, 1, 4)), x.v[5]))
        ELSE IF b.v = 254 THEN ZmLen(b.buf, ErrZipmapLength, 0, 0)
        ELSE IF b.v = 255 THEN ZmLen(b.buf, Nil, -1, 0)
        ELSE IF readFree
        THEN Bind(ReadByte(b.buf), LAMBDA f : ZmLen(f.buf, f.err, b.v, f.v))
        ELSE ZmLen(b.buf, Nil, b.v, 0))

\* a nil item (the terminator) is the empty byte string
loadZipmapItem(buf, readFree) ==
    Bind(loadZipmapItemLength(buf, readFree), LAMBDA l :
        IF l.err # Nil THEN In(l.buf, l.err, <<>>)
        ELSE IF l.length = -1 THEN In(l.buf, Nil, <<>>)
        ELSE Bind(Slice(l.buf, l.length), LAMBDA value :
            IF value.err # Nil THEN In(value.buf, value.err, <<>>)
            ELSE Bind(Seek(value.buf, l.free, 1), LAMBDA k :
                In(k.buf, k.err, value.v))))

\* buf.Seek(strLen + free, 1), in two steps to stay within the integers
seekPast(buf, strLen, free) ==
    Bind(Seek(buf, strLen, 1), LAMBDA k :
        IF k.err # Nil THEN k ELSE Seek(k.buf, free, 1))

RECURSIVE countZipmapLoop(_, _)
countZipmapLoop(buf, n) ==
    Bind(loadZipmapItemLength(buf, n % 2 # 0), LAMBDA l :
        IF l.err # Nil THEN In(l.buf, l.err, 0)
        ELSE IF l.length = -1 THEN In(l.buf, Nil, n)
        ELSE Bind(seekPast(l.buf, l.length, l.free), LAMBDA k :
            IF k.err # Nil THEN In(k.buf, k.err, 0)
            ELSE countZipmapLoop(k.buf, n + 1)))

countZipmapItems(buf) ==
    Bind(countZipmapLoop(buf, 0), LAMBDA c :
        IF c.err # Nil THEN In(c.buf, c.err, 0)
        ELSE Bind(Seek(c.buf, 0, 0), LAMBDA k : In(k.buf, k.err, c.v)))

\* the loop of loadHashMapWithZipmap
RECURSIVE zipmapLoop(_, _, _)
zipmapLoop(buf, count, acc) ==
    IF count = 0 THEN In(buf, Nil, acc)
    ELSE Bind(loadZipmapItem(buf, FALSE), LAMBDA field :
             IF field.err # Nil THEN In(field.buf, field.err, acc)
             ELSE Bind(loadZipmapItem(field.buf, TRUE), LAMBDA value :
                 IF value.err # Nil THEN In(value.buf, value.err, acc)
                 ELSE zipmapLoop(value.buf, count - 1,
                                 acc \o <<field.v, value.v>>)))

\* length: blen, or for blen > 254 half of what countZipmapItems counts
zipmapLength(blen) ==
    IF blen.v > 254
    THEN Bind(countZipmapItems(blen.buf), LAMBDA c : In(c.buf, c.err, c.v \div 2))
    ELSE In(blen.buf, Nil, blen.v)

loadHashMapWithZipmap(s, d, key, fail) ==
    Bind(loadString(s), LAMBDA zipmap :
        IF zipmap.err # Nil THEN Out(zipmap, zipmap.i, zipmap.err, d)
        ELSE Bind(ReadByte(newInput(zipmap.res)), LAMBDA blen :
            IF blen.err # Nil THEN Out(zipmap, zipmap.i, blen.err, d)
            ELSE Bind(zipmapLength(blen), LAMBDA length :
                IF length.err # Nil THEN Out(zipmap, zipmap.i, length.err, d)
                ELSE Bind(zipmapLoop(length.buf, length.v, <<>>), LAMBDA e :
                    IF e.err # Nil THEN Out(zipmap, zipmap.i, e.err, d)
                    ELSE Forward(zipmap, d, "HSET", key, e.v, length.v, fail)))))

\* ------------------------------------------------------------------- intset
RECURSIVE intSetLoop(_, _, _, _)
intSetLoop(buf, intSize, count, acc) ==
    IF count = 0 THEN In(buf, Nil, acc)
    ELSE Bind(Slice(buf, intSize), LAMBDA x :
             IF x.err # Nil THEN In(x.buf, x.err, acc)
             ELSE intSetLoop(x.buf, intSize, count - 1, Append(acc, FormatInt(x.v))))

loadIntSet(s, d, key, fail) ==
    Bind(loadString(s), LAMBDA b :
        IF b.err # Nil THEN Out(b, b.i, b.err, d)
        ELSE Bind(Slice(newInput(b.res), 4), LAMBDA sizeBytes :
            IF sizeBytes.err # Nil THEN Out(b, b.i, sizeBytes.err, d)
            ELSE IF LittleEndian(sizeBytes.v) \notin {2, 4, 8}
            THEN Out(b, b.i, ErrIntset, d)
            ELSE Bind(Slice(sizeBytes.buf, 4), LAMBDA lenBytes :
                IF lenBytes.err # Nil THEN Out(b, b.i, lenBytes.err, d)
                ELSE Bind(intSetLoop(lenBytes.buf, LittleEndian(sizeBytes.v),
                                     LittleEndian(lenBytes.v), <<>>), LAMBDA e :
                    IF e.err # Nil THEN Out(b, b.i, e.err, d)
                    ELSE Forward(b, d, "SADD", key, e.v,
                                 LittleEndian(lenBytes.v), fail)))))

\* ---------------------------------------------------------------- loadValue
\* r.conn.Do returns an error for a failed connection and for an error reply
DoErr(rep) == IF rep.kind \in {"neterr", "error"} THEN ErrDest ELSE Nil

loadStringValue(s, d, key, fail) ==
    Bind(loadString(s), LAMBDA val :
        IF val.err # Nil THEN Out(val, val.i, val.err, d)
        ELSE Bind(Do(d, "SET", <<key, val.res>>, fail), LAMBDA x :
            Bind(redigoString(x.rep), LAMBDA res :
                IF res.err # Nil \/ res.val # "OK" THEN Out(val, val.i, ErrDest, x.d)
                ELSE Out(val, val.i, Nil, x.d))))

\* loadValue without its last branch: an unknown type is skipped
loadValueBodySkipsUnknown(s, d, key, t, fail) ==
    IF t = TypeString THEN loadStringValue(s, d, key, fail)
    ELSE IF t = TypeList THEN loadList(s, d, key, fail)
    ELSE IF t = TypeSet THEN loadSet(s, d, key, fail)
    ELSE IF t = TypeZset \/ t = TypeZset2 THEN loadZSet(s, d, key, t, fail)
    ELSE IF t = TypeHash THEN loadHashMap(s, d, key, fail)
    ELSE IF t = TypeListQuickList THEN loadListWithQuickList(s, d, key, fail)
    ELSE IF t = TypeHashZipMap THEN loadHashMapWithZipmap(s, d, key, fail)
    ELSE IF t = TypeListZipList THEN loadListWithZipList(s, d, key, fail)
    ELSE IF t = TypeSetIntSet THEN loadIntSet(s, d, key, fail)
    ELSE IF t = TypeZsetZipList THEN loadZipListSortSet(s, d, key, fail)
    ELSE IF t = TypeHashZipList THEN loadHashMapZiplist(s, d, key, fail)
    ELSE IF t = TypeStreamListPacks THEN Out(s, s.i, ErrStreams, d)
    ELSE IF t = TypeModule \/ t = TypeModule2 THEN Out(s, s.i, ErrModules, d)
    ELSE Out(s, s.i, Nil, d)

\* the type dispatch of loadValue
loadValueBody(s, d, key, t, fail) ==
    IF t = TypeString THEN loadStringValue(s, d, key, fail)
    ELSE IF t = TypeList THEN loadList(s, d, key, fail)
    ELSE IF t = TypeSet THEN loadSet(s, d, key, fail)
    ELSE IF t = TypeZset \/ t = TypeZset2 THEN loadZSet(s, d, key, t, fail)
    ELSE IF t = TypeHash THEN loadHashMap(s, d, key, fail)
    ELSE IF t = TypeListQuickList THEN loadListWithQuickList(s, d, key, fail)
    ELSE IF t = TypeHashZipMap THEN loadHashMapWithZipmap(s, d, key, fail)
    ELSE IF t = TypeListZipList THEN loadListWithZipList(s, d, key, fail)
    ELSE IF t = TypeSetIntSet THEN loadIntSet(s, d, key, fail)
    ELSE IF t = TypeZsetZipList THEN loadZipListSortSet(s, d, key, fail)
    ELSE IF t = TypeHashZipList THEN loadHashMapZiplist(s, d, key, fail)
    ELSE IF t = TypeStreamListPacks THEN Out(s, s.i, ErrStreams, d)
    ELSE IF t = TypeModule \/ t = TypeModule2 THEN Out(s, s.i, ErrModules, d)
    ELSE Out(s, s.i, ErrUnhandled, d)

\* loadValue without the guard on the sign of the expiry
loadValueExpiresAlways(s, d, key, t, exp, fail) ==
    Bind(loadValueBody(s, d, key, t, fail), LAMBDA v :
        IF v.err # Nil THEN v
        ELSE Bind(Do(v.d, "PEXPIREAT", <<key, exp>>, fail), LAMBDA x :
                 IF DoErr(x.rep) # Nil THEN Out(v, v.i, ErrDest, x.d)
                 ELSE Out(v, v.i, Nil, x.d)))

loadValue(s, d, key, t, exp, fail) ==
    Bind(loadValueBody(s, d, key, t, fail), LAMBDA v :
        IF v.err # Nil THEN v
        ELSE IF Int64Positive(exp)
        THEN Bind(Do(v.d, "PEXPIREAT", <<key, exp>>, fail), LAMBDA x :
                 IF DoErr(x.rep) # Nil THEN Out(v, v.i, ErrDest, x.d)
                 ELSE Out(v, v.i, Nil, x.d))
        ELSE v)

selectDB(d, index, fail) ==
    Bind(Do(d, "SELECT", <<index>>, fail), LAMBDA x :
        Bind(redigoString(x.rep), LAMBDA res :
            [d |-> x.d,
             err |-> IF res.err # Nil \/ res.val # "OK" THEN ErrDest ELSE Nil]))

loadScript(d, script, fail) ==
    Bind(Do(d, "SCRIPT LOAD", <<script>>, fail), LAMBDA x :
        Bind(redigoInt(x.rep), LAMBDA n :
            [d |-> x.d, err |-> IF n.err # Nil THEN ErrDest ELSE Nil]))

\* ------------------------------------------------------------ the snapshots
\* What the source may send: the 9-byte header, opcodes and records drawn
\* from Catalog, the EOF opcode and 8 checksum bytes, then either nothing
\* more, or the first bytes of the command stream; or the connection breaks
\* before the EOF opcode.
Item(op, b) == [op |-> op, b |-> b]

Catalog == <<
    Item("IDLE", <<248, 15>>),
    Item("FREQ", <<249, 7>>),
    Item("AUX", <<250, 0, 1, 98>>),
    Item("AUX", <<250, 3, 108, 117, 97, 1, 115>>),
    Item("RESIZEDB", <<251, 2, 1>>),
    Item("EXPIRETIME_MS", <<252, 1, 0, 0, 0, 0, 0, 0, 0>>),
    Item("EXPIRETIME", <<253, 2, 0, 0, 0>>),
    Item("SELECTDB", <<254, 1>>),
    Item("SELECTDB", <<254, 2>>),
    Item("RECORD", <<0, 1, 107, 1, 118>>),
    Item("RECORD", <<0, 1, 110, 192, 255>>),
    Item("RECORD", <<1, 1, 108, 1, 1, 97>>),
    Item("MODULE", <<6, 1, 109>>),
    Item("UNKNOWN", <<8, 1, 117>>),
    Item("BADLEN", <<248, 130>>),
    Item("BADENC", <<0, 1, 107, 196>>) >>

ValidOps == {"IDLE", "FREQ", "AUX", "RESIZEDB", "EXPIRETIME_MS", "EXPIRETIME",
             "SELECTDB", "RECORD"}

Header == <<82, 69, 68, 73, 83, 48, 48, 48, 57>>      \* REDIS0009
BadHeader == <<82, 69, 68, 73, 83, 48, 48, 49, 48>>   \* REDIS0010
Checksum == <<0, 0, 0, 0, 0, 0, 0, 0>>
Commands == <<42, 49, 13, 10>>                         \* *1\r\n

RECURSIVE Flatten(_)
Flatten(its) == IF its = <<>> THEN <<>> ELSE Head(its).b \o Flatten(Tail(its))

ItemSeqs == UNION {[1..k -> 1..Len(Catalog)] : k \in 0..MaxItems}

Snapshot(hdr, its) == hdr \o Flatten(its) \o <<FlagOpcodeEOF>> \o Checksum

Init ==
    /\ \E c \in ItemSeqs, ending \in {"full", "commands", "broken"},
          hdr \in {Header, BadHeader} :
          /\ hdr = BadHeader => c = <<>> /\ ending = "full"
          /\ items = [k \in 1..Len(c) |-> Catalog[c[k]]]
          /\ stream = CASE ending = "full" -> Snapshot(hdr, items)
                        [] ending = "commands" -> Snapshot(hdr, items) \o Commands
                        [] ending = "broken" -> hdr \o Flatten(items)
          /\ r = [i |-> 0, n |-> Len(Snapshot(hdr, items))]
    /\ pos = 0
    /\ expire = Int64Zero
    /\ hasSelectDb = FALSE
    /\ pc = "checkHeader"
    /\ err = Nil
    /\ sent = <<>>
    /\ destDB = 0
    /\ dest = <<>>
    /\ loaded = <<>>
    /\ NoCursor
    /\ NoDecoders
    /\ NoPsync

\* ------------------------------------------------------------------ actions
cur == [pos |-> pos, i |-> r.i]
D == [db |-> destDB, data |-> dest, sent |-> sent]

\* the byte loadData reads at the top of its loop
t == loadByte(cur)

AtOpcode(op) == pc = "loadData" /\ r.i < r.n /\ t.err = Nil /\ t.buf = op

\* the destination's part of a handler's input: see Do
Fails == {0} \cup {Len(sent) + f : f \in 1..MaxFail}
             \cup {0 - (Len(sent) + f) : f \in 1..MaxFail}

Continue(s) ==
    /\ pos' = s.pos
    /\ r' = [r EXCEPT !.i = s.i]
    /\ pc' = "loadData"
    /\ err' = Nil

Return(s, e) ==
    /\ pos' = s.pos
    /\ r' = [r EXCEPT !.i = s.i]
    /\ pc' = IF e = Nil THEN "done" ELSE "failed"
    /\ err' = e

Step(s, e) == IF e = Nil THEN Continue(s) ELSE Return(s, e)

RECURSIVE Decimal(_, _)
Decimal(s, acc) ==
    IF s = <<>> THEN acc ELSE Decimal(Tail(s), acc * 10 + (Head(s) - 48))

\* strconv.Atoi of a short string: an optional sign, then decimal digits
Atoi(s) ==
    LET digits == IF s # <<>> /\ s[1] \in {43, 45} THEN Tail(s) ELSE s
        ok == digits # <<>> /\ \A k \in 1..Len(digits) : IsDigit(digits[k])
    IN  [ok |-> ok,
         val |-> IF ~ok THEN 0
                 ELSE IF s[1] = 45 THEN 0 - Decimal(digits, 0)
                 ELSE Decimal(digits, 0)]

checkHeaderOf(h) ==
    Bind(Atoi(SubSeq(h.p, 6, 9)), LAMBDA rdbVersion :
        IF h.err # Nil THEN Return(h, h.err)
        ELSE IF SubSeq(h.p, 1, 5) # <<82, 69, 68, 73, 83>> \/ ~rdbVersion.ok
                \/ rdbVersion.val < VersionMin \/ rdbVersion.val > VersionMax
        THEN Return([pos |-> h.pos, i |-> h.i + h.n], ErrHeader)
        ELSE Continue([pos |-> h.pos, i |-> h.i + h.n]))

checkHeader ==
    /\ pc = "checkHeader"
    /\ checkHeaderOf(ReadFull(cur, 9))
    /\ UNCHANGED <<others, stream, items, expire, hasSelectDb, sent, destDB, dest, loaded>>

loadByteFails ==
    /\ pc = "loadData" /\ r.i < r.n /\ t.err # Nil
    /\ Return(t, t.err)
    /\ UNCHANGED <<others, stream, items, expire, hasSelectDb, sent, destDB, dest, loaded>>

loopEnds ==
    /\ pc = "loadData" /\ r.i >= r.n
    /\ Return(cur, Nil)
    /\ UNCHANGED <<others, stream, items, expire, hasSelectDb, sent, destDB, dest, loaded>>

opcodeIdle ==
    /\ AtOpcode(FlagOpcodeIdle)
    /\ Bind(loadLen(t), LAMBDA l : Step(l, l.err))
    /\ UNCHANGED <<others, stream, items, expire, hasSelectDb, sent, destDB, dest, loaded>>

opcodeFreq ==
    /\ AtOpcode(FlagOpcodeFreq)
    /\ Bind(loadByte(t), LAMBDA b : Step(b, b.err))
    /\ UNCHANGED <<others, stream, items, expire, hasSelectDb, sent, destDB, dest, loaded>>

\* the destination after a handler
Sent(d) == sent' = d.sent /\ destDB' = d.db /\ dest' = d.data

opcodeAux ==
    /\ AtOpcode(FlagOpcodeAux)
    /\ \E fail \in Fails :
         Bind(loadString(t), LAMBDA key :
             IF key.err # Nil
             THEN Return(key, key.err) /\ UNCHANGED <<sent, destDB, dest>>
             ELSE Bind(loadString(key), LAMBDA val :
                 IF val.err # Nil
                 THEN Return(val, val.err) /\ UNCHANGED <<sent, destDB, dest>>
                 ELSE IF key.res = <<108, 117, 97>>
                 THEN Continue(val) /\ Sent(loadScript(D, val.res, fail).d)
                 ELSE Continue(val) /\ UNCHANGED <<sent, destDB, dest>>))
    /\ UNCHANGED <<others, stream, items, expire, hasSelectDb, loaded>>

opcodeResizeDB ==
    /\ AtOpcode(FlagOpcodeResizeDB)
    /\ Bind(loadLen(t), LAMBDA dbSize :
           IF dbSize.err # Nil THEN Return(dbSize, dbSize.err)
           ELSE Bind(loadLen(dbSize), LAMBDA expiresSize :
                    Step(expiresSize, expiresSize.err)))
    /\ UNCHANGED <<others, stream, items, expire, hasSelectDb, sent, destDB, dest, loaded>>

opcodeExpireTimeMs ==
    /\ AtOpcode(FlagOpcodeExpireTimeMs)
    /\ Bind(loadUint64(t), LAMBDA res :
           /\ Step(res, res.err)
           /\ expire' = IF res.err # Nil THEN expire ELSE res.res)
    /\ UNCHANGED <<others, stream, items, hasSelectDb, sent, destDB, dest, loaded>>

opcodeExpireTime ==
    /\ AtOpcode(FlagOpcodeExpireTime)
    /\ Bind(loadUint64(t), LAMBDA res :
           /\ Step(res, res.err)
           /\ expire' = IF res.err # Nil THEN expire ELSE MulLE(res.res, 1000, 0))
    /\ UNCHANGED <<others, stream, items, hasSelectDb, sent, destDB, dest, loaded>>

\* the SELECTDB handler with the flag set after the first SELECT
opcodeSelectDBLatches ==
    /\ AtOpcode(FlagOpcodeSelectDB)
    /\ \E fail \in Fails :
         IF hasSelectDb
         THEN Continue(t) /\ UNCHANGED <<hasSelectDb, sent, destDB, dest>>
         ELSE Bind(loadLen(t), LAMBDA dbindex :
                  IF dbindex.err # Nil
                  THEN Return(dbindex, dbindex.err)
                       /\ UNCHANGED <<hasSelectDb, sent, destDB, dest>>
                  ELSE /\ Continue(dbindex)
                       /\ Sent(selectDB(D, dbindex.length, fail).d)
                       /\ hasSelectDb' = TRUE)
    /\ UNCHANGED <<others, stream, items, expire, loaded>>

opcodeSelectDB ==
    /\ AtOpcode(FlagOpcodeSelectDB)
    /\ \E fail \in Fails :
         IF hasSelectDb
         THEN Continue(t) /\ UNCHANGED <<hasSelectDb, sent, destDB, dest>>
         ELSE Bind(loadLen(t), LAMBDA dbindex :
                  IF dbindex.err # Nil
                  THEN Return(dbindex, dbindex.err)
                       /\ UNCHANGED <<hasSelectDb, sent, destDB, dest>>
                  ELSE /\ Continue(dbindex)
                       /\ Sent(selectDB(D, dbindex.length, fail).d)
                       /\ hasSelectDb' = FALSE)
    /\ UNCHANGED <<others, stream, items, expire, loaded>>

\* the EOF handler going back to the top of the loop instead of leaving it
opcodeEOFContinues ==
    /\ AtOpcode(FlagOpcodeEOF)
    /\ Bind(ReadFull(t, 8), LAMBDA f :
           IF f.err # Nil THEN Return(f, f.err)
           ELSE Continue([pos |-> f.pos, i |-> t.i + f.n]))
    /\ UNCHANGED <<others, stream, items, expire, hasSelectDb, sent, destDB, dest, loaded>>

opcodeEOF ==
    /\ AtOpcode(FlagOpcodeEOF)
    /\ Bind(ReadFull(t, 8), LAMBDA f :
           IF f.err # Nil THEN Return(f, f.err)
           ELSE Return([pos |-> f.pos, i |-> t.i + f.n], Nil))
    /\ UNCHANGED <<others, stream, items, expire, hasSelectDb, sent, destDB, dest, loaded>>

\* any other byte is an object type: the key, then loadValue
record ==
    /\ pc = "loadData" /\ r.i < r.n /\ t.err = Nil /\ t.buf < FlagOpcodeIdle
    /\ \E fail \in Fails :
         Bind(loadString(t), LAMBDA key :
             IF key.err # Nil
             THEN Return(key, key.err)
                  /\ UNCHANGED <<expire, sent, destDB, dest, loaded>>
             ELSE Bind(loadValue(key, D, key.res, t.buf, expire, fail), LAMBDA v :
                 /\ Step(v, v.err)
                 /\ Sent(v.d)
                 /\ expire' = IF v.err # Nil THEN expire ELSE Int64MinusOne
                 /\ loaded' = Append(loaded, [start |-> pos, key |-> key.res,
                                              t |-> t.buf, expire |-> expire])))
    /\ UNCHANGED <<others, stream, items, hasSelectDb>>

Next ==
    \/ checkHeader
    \/ loadByteFails
    \/ loopEnds
    \/ opcodeIdle
    \/ opcodeFreq
    \/ opcodeAux
    \/ opcodeResizeDB
    \/ opcodeExpireTimeMs
    \/ opcodeExpireTime
    \/ opcodeSelectDB
    \/ opcodeEOF
    \/ record

Spec == Init /\ [][Next]_vars

\* ------------------------------------------------- snapshots of collections
\* A second set of snapshots: records of every collection type, some of them
\* under the same key or with repeated members, so that the destination's
\* integer replies do and do not match the decoded counts.

\* a string of fewer than 64 bytes behind its 6-bit length
Str(s) == <<Len(s)>> \o s

\* a ziplist slab of count entries: zlbytes, zltail, zllen, entries, end
Ziplist(count, entries) ==
    <<11 + Len(entries), 0, 0, 0, 10, 0, 0, 0, count, 0>> \o entries \o <<255>>

\* the entries of a ziplist: prev-len, a 6-bit string header, the bytes
RECURSIVE ZlEntries(_, _)
ZlEntries(es, prev) ==
    IF es = <<>> THEN <<>>
    ELSE <<prev, Len(Head(es))>> \o Head(es)
         \o ZlEntries(Tail(es), 2 + Len(Head(es)))

RECURSIVE Slabs(_)
Slabs(ss) ==
    IF ss = <<>> THEN <<>>
    ELSE Str(Ziplist(Len(Head(ss)), ZlEntries(Head(ss), 0))) \o Slabs(Tail(ss))

\* quicklists as their writer lays them out: the key q, one slab [a, b],
\* and two slabs [a], [b]
QuickLists == <<
    [key |-> <<113>>, slabs |-> << << <<97>>, <<98>> >> >>],
    [key |-> <<113>>, slabs |-> << << <<97>> >>, << <<98>> >> >>] >>

QuickListRecord(q) ==
    Item("RECORD", <<TypeListQuickList>> \o Str(q.key) \o <<Len(q.slabs)>>
                      \o Slabs(q.slabs))

\* the pairs of a zipmap: field length, field, value length, free, value
RECURSIVE ZmPairs(_)
ZmPairs(ps) ==
    IF ps = <<>> THEN <<>>
    ELSE <<Len(ps[1])>> \o ps[1] \o <<Len(ps[2]), 0>> \o ps[2]
         \o ZmPairs(SubSeq(ps, 3, Len(ps)))

\* zipmaps holding f = v: with the pair count in the first byte, and with
\* a first byte that tells the reader to count
Zipmaps == <<
    [key |-> <<104>>, first |-> 1,   pairs |-> << <<102>>, <<118>> >>],
    [key |-> <<109>>, first |-> 255, pairs |-> << <<102>>, <<118>> >>] >>

ZipmapRecord(z) ==
    Item("RECORD", <<TypeHashZipMap>> \o Str(z.key)
                      \o Str(<<z.first>> \o ZmPairs(z.pairs) \o <<255>>))

Records == <<
    Item("EXPIRETIME_MS", <<252, 1, 0, 0, 0, 0, 0, 0, 0>>),
    Item("RECORD", <<TypeList>> \o Str(<<108>>) \o <<2>> \o Str(<<97>>) \o Str(<<98>>)),
    Item("RECORD", <<TypeList>> \o Str(<<108>>) \o <<1>> \o Str(<<99>>)),
    Item("RECORD", <<TypeSet>> \o Str(<<115>>) \o <<2>> \o Str(<<97>>) \o Str(<<97>>)),
    Item("RECORD", <<TypeSet>> \o Str(<<115>>) \o <<1>> \o Str(<<98>>)),
    Item("RECORD", <<TypeHash>> \o Str(<<104>>) \o <<1>> \o Str(<<102>>) \o Str(<<118>>)),
    Item("RECORD", <<TypeZset>> \o Str(<<122>>) \o <<1>> \o Str(<<109>>) \o <<1, 49>>),
    Item("RECORD", <<TypeZset2>> \o Str(<<122>>) \o <<1>> \o Str(<<110>>)
                      \o <<0, 0, 0, 0, 0, 0, 240, 63>>),
    Item("RECORD", <<TypeListZipList>> \o Str(<<108>>)
                      \o Str(Ziplist(2, <<0, 1, 97, 3, 254, 255>>))),
    Item("RECORD", <<TypeHashZipList>> \o Str(<<104>>)
                      \o Str(Ziplist(2, <<0, 1, 102, 3, 1, 119>>))),
    Item("RECORD", <<TypeZsetZipList>> \o Str(<<122>>)
                      \o Str(Ziplist(2, <<0, 1, 109, 3, 1, 50>>))),
    Item("RECORD", <<TypeSetIntSet>> \o Str(<<115>>)
                      \o Str(<<2, 0, 0, 0, 2, 0, 0, 0, 1, 0, 255, 255>>)),
    ZipmapRecord(Zipmaps[1]),
    ZipmapRecord(Zipmaps[2]),
    QuickListRecord(QuickLists[1]),
    QuickListRecord(QuickLists[2]) >>

InitRecords ==
    /\ \E c \in UNION {[1..k -> 1..Len(Records)] : k \in 0..MaxItems},
          ending \in {"full", "broken"} :
          /\ items = [k \in 1..Len(c) |-> Records[c[k]]]
          /\ stream = IF ending = "full" THEN Snapshot(Header, items)
                      ELSE Header \o Flatten(items)
          /\ r = [i |-> 0, n |-> Len(Snapshot(Header, items))]
    /\ pos = 0
    /\ expire = Int64Zero
    /\ hasSelectDb = FALSE
    /\ pc = "checkHeader"
    /\ err = Nil
    /\ sent = <<>>
    /\ destDB = 0
    /\ dest = <<>>
    /\ loaded = <<>>
    /\ NoCursor
    /\ NoDecoders
    /\ NoPsync

NextRecords ==
    \/ checkHeader
    \/ loadByteFails
    \/ opcodeExpireTimeMs
    \/ opcodeEOF
    \/ record

SpecRecords == InitRecords /\ [][NextRecords]_vars

\* -------------------------------------------------- the byte cursor, alone
\* Calls on one cursor over a slab, in any order.

\* the largest argument of a call, and the largest index a Seek is asked for
MaxArg == 3
MaxIndex == 12

\* no decode run
NoRun ==
    /\ stream = <<>> /\ items = <<>> /\ pos = 0
    /\ r = [i |-> 0, n |-> 0]
    /\ expire = Int64Zero
    /\ hasSelectDb = FALSE
    /\ pc = "idle"
    /\ err = Nil
    /\ sent = <<>>
    /\ destDB = 0
    /\ dest = <<>>
    /\ loaded = <<>>

\* slabs: a ziplist entry for every header byte 11xxxxxx, a string entry, an
\* entry behind a 5-byte prev-len, and zipmap items in the one-byte and the
\* 253 form, an invalid one and the end marker
EntrySlabs == {<<0, h, 1, 2, 3, 4, 5, 6, 7, 8>> : h \in 192..255}
                  \cup {<<0, 2, 97, 98>>, <<254, 0, 0, 0, 0, 1, 97>>}
ItemSlabs == {<<253, 0, 0, 0, 2, 1, 102, 103, 120, 121>>,
              <<1, 102, 1, 2, 118, 0, 0, 255>>,
              <<254, 1>>, <<255>>}

\* one whole entry of every encoding: 6-, 14- and 32-bit strings, int8,
\* int16, int24, int32, int64, and a string behind a 5-byte prev-len
WholeEntries == {<<0, 2, 97, 98>>, <<0, 64, 2, 97, 98>>, <<0, 128, 0, 0, 0, 1, 97>>,
                 <<0, 254, 5>>, <<0, 192, 1, 2>>, <<0, 240, 1, 2, 3>>,
                 <<0, 208, 1, 2, 3, 4>>, <<0, 224, 1, 2, 3, 4, 5, 6, 7, 8>>,
                 <<254, 0, 0, 0, 0, 1, 97>>}

\* the same entries in a slab that ends before they do
CutEntries == UNION {{SubSeq(e, 1, k) : k \in 0..(Len(e) - 1)} : e \in WholeEntries}

InitCursor ==
    /\ NoRun
    /\ \E data \in EntrySlabs \cup ItemSlabs \cup WholeEntries \cup CutEntries :
           input = newInput(data)
    /\ ret = Ret("newInput", <<>>, Nil, <<>>)
    /\ NoDecoders
    /\ NoPsync

Returns(op, arg, x, v) ==
    /\ input' = x.buf
    /\ ret' = Ret(op, arg, x.err, v)

callSlice ==
    /\ \E n \in 0..MaxArg : Bind(Slice(input, n), LAMBDA x : Returns("Slice", <<n>>, x, x.v))
    /\ UNCHANGED <<run, buff, dec, psync>>

callReadByte ==
    /\ Bind(ReadByte(input), LAMBDA x : Returns("ReadByte", <<>>, x, <<x.v>>))
    /\ UNCHANGED <<run, buff, dec, psync>>

callRead ==
    /\ \E k \in 0..MaxArg :
           Bind(Read(input, k), LAMBDA x : Returns("Read", <<k>>, x, x.v))
    /\ UNCHANGED <<run, buff, dec, psync>>

callSeek ==
    /\ \E offset \in (0 - MaxArg)..MaxIndex, whence \in 0..3 :
           /\ Seek(input, offset, whence).buf.index <= MaxIndex
           /\ Bind(Seek(input, offset, whence), LAMBDA x :
                  Returns("Seek", <<offset, whence>>, x, <<x.v>>))
    /\ UNCHANGED <<run, buff, dec, psync>>

callLoadZipmapItem ==
    /\ \E readFree \in BOOLEAN :
           Bind(loadZipmapItem(input, readFree), LAMBDA x :
               Returns(IF readFree THEN "loadZipmapItem(buf, true)"
                       ELSE "loadZipmapItem(buf, false)", <<>>, x, x.v))
    /\ UNCHANGED <<run, buff, dec, psync>>

callLoadZiplistEntry ==
    /\ Bind(loadZiplistEntry(input), LAMBDA x :
           Returns("loadZiplistEntry", <<>>, x, x.v))
    /\ UNCHANGED <<run, buff, dec, psync>>

NextCursor ==
    \/ callSlice
    \/ callReadByte
    \/ callRead
    \/ callSeek
    \/ callLoadZipmapItem
    \/ callLoadZiplistEntry

SpecCursor == InitCursor /\ [][NextCursor]_vars

\* ------------------------------------------------ length prefixes, alone
\* One call of loadLen on a stream that begins with a length prefix as the
\* writer of a snapshot lays it out, followed by other bytes or by nothing.

\* the lengths written: all of the one- and two-byte range, and some of the
\* five-byte range (the integers of the model end at 2^31 - 1)
Lengths == (0..16383) \cup {16384, 65535, 65536, 16777215, 16777216, Huge - 1}

EncodeLen(n) ==
    IF n <= 63 THEN <<n>>
    ELSE IF n <= 16383 THEN <<64 + n \div 256, n % 256>>
    ELSE <<Type32Bit, n \div 16777216, (n \div 65536) % 256,
           (n \div 256) % 256, n % 256>>

\* what follows the prefix in the stream
Tails == {<<>>, <<7>>, <<255, 255, 255, 255, 255, 255, 255, 255>>}

Prefix(op, b, n) == [op |-> op, b |-> b, n |-> n]

Prefixes ==
    {Prefix("LENGTH", EncodeLen(n), n) : n \in Lengths}
        \cup {Prefix("ENCODING", <<m>>, m % 64) : m \in 192..255}

InitLen ==
    /\ \E p \in Prefixes, tail \in Tails :
          /\ items = <<p>>
          /\ stream = p.b \o tail
          /\ r = [i |-> 0, n |-> Len(p.b \o tail)]
    /\ pos = 0
    /\ expire = Int64Zero
    /\ hasSelectDb = FALSE
    /\ pc = "loadLen"
    /\ err = Nil
    /\ sent = <<>>
    /\ destDB = 0
    /\ dest = <<>>
    /\ loaded = <<>>
    /\ input = newInput(<<>>)
    /\ ret = [op |-> "none", length |-> 0, isEncode |-> FALSE]
    /\ NoDecoders
    /\ NoPsync

callLoadLen ==
    /\ pc = "loadLen"
    /\ Bind(loadLen(cur), LAMBDA l :
           /\ pos' = l.pos
           /\ r' = [r EXCEPT !.i = l.i]
           /\ err' = l.err
           /\ ret' = [op |-> "loadLen", length |-> l.length,
                      isEncode |-> l.isEncode])
    /\ pc' = "returned"
    /\ UNCHANGED <<stream, items, expire, hasSelectDb, sent, destDB, dest,
                   loaded, input, buff, dec, psync>>

NextLen == callLoadLen

SpecLen == InitLen /\ [][NextLen]_vars

\* ------------------------------------------------- reader.readRDB and repl
\* The source answers SYNC with idle lines, the size line, the snapshot and
\* then the commands to replicate.  stream is what the source wrote, pos
\* how much of it the bufio.Reader has handed out, r.n the announced size
\* and r.i the loop counter of readRDB.

MaxIdle == 2
MaxSnapshot == 3
MaxCommands == 2

\* len(p): the buffer readRDB reads the snapshot into
ReadBufferSize == 4096

ErrReadSize == "failed to read size of rdb data"
ErrReadData == "failed to read rdb data"
ErrReadCommand == "failed to read command"

\* r.buf.ReadString(delim) and ReadBytes(delim): up to and including the
\* first delim, or what is left and EOF
ReadString(p, delim) ==
    LET ends == {k \in (p + 1)..Len(stream) : stream[k] = delim}
        end == CHOOSE k \in ends : \A j \in ends : k <= j
    IN  IF ends = {}
        THEN [pos |-> Len(stream), str |-> SubSeq(stream, p + 1, Len(stream)),
              err |-> ErrEOF]
        ELSE [pos |-> end, str |-> SubSeq(stream, p + 1, end), err |-> Nil]

\* what the source writes
IdleLine == Item("IDLE", <<10>>)
SizeLine(mark, n) == Item("SIZE", <<mark>> \o Itoa(<<n>>) \o <<13, 10>>)
Data(n) == Item("DATA", [k \in 1..n |-> IF k % 2 = 0 THEN 10 ELSE 82])
Command(k) == Item("COMMAND", <<42, 48 + k, 13, 10>>)

InitReader ==
    /\ \E idle \in 0..MaxIdle, mark \in {36, 43}, n \in 0..MaxSnapshot,
          c \in 0..MaxCommands :
          /\ items = [k \in 1..idle |-> IdleLine]
                        \o <<SizeLine(mark, n), Data(n)>>
                        \o [k \in 1..c |-> Command(k)]
          /\ stream = Flatten(items)
    /\ pos = 0
    /\ r = [i |-> 0, n |-> 0]
    /\ expire = Int64Zero
    /\ hasSelectDb = FALSE
    /\ pc = "readRDB"
    /\ err = Nil
    /\ sent = <<>>
    /\ destDB = 0
    /\ dest = <<>>
    /\ loaded = <<>>
    /\ NoCursor
    /\ NoDecoders
    /\ NoPsync

Fail(p, e) == pos' = p /\ pc' = "failed" /\ err' = e /\ r' = r

\* one turn of the loops over the lines before the snapshot: an idle line
\* is skipped, any other line is the announcement
readSize ==
    /\ pc = "readRDB"
    /\ Bind(ReadString(pos, 10), LAMBDA l :
           IF l.err # Nil THEN Fail(l.pos, ErrReadSize)
           ELSE IF Len(l.str) = 1
           THEN pos' = l.pos /\ UNCHANGED <<r, pc, err>>
           ELSE IF Len(l.str) = 2 THEN Fail(l.pos, ErrPanic)
           ELSE Bind(Atoi(SubSeq(l.str, 2, Len(l.str) - 2)), LAMBDA n :
                    IF l.str[1] # 36 \/ ~n.ok THEN Fail(l.pos, ErrReadSize)
                    ELSE /\ pos' = l.pos
                         /\ r' = [i |-> 0, n |-> n.val]
                         /\ pc' = "readData"
                         /\ err' = Nil))
    /\ UNCHANGED <<others, stream, items, expire, hasSelectDb, sent, destDB,
                   dest, loaded>>

\* n, err := r.buf.Read(p): at least one byte and at most len(p), of what
\* the source has written
readData ==
    /\ pc = "readData" /\ r.i < r.n
    /\ IF pos = Len(stream) THEN Fail(pos, ErrReadData)
       ELSE \E n \in 1..(Len(stream) - pos) :
                /\ n <= ReadBufferSize
                /\ pos' = pos + n
                /\ r' = [r EXCEPT !.i = r.i + n]
                /\ UNCHANGED <<pc, err>>
    /\ UNCHANGED <<others, stream, items, expire, hasSelectDb, sent, destDB,
                   dest, loaded>>

readRDBReturns ==
    /\ pc = "readData" /\ r.i >= r.n
    /\ pc' = "repl"
    /\ UNCHANGED <<pos, r, err>>
    /\ UNCHANGED <<others, stream, items, expire, hasSelectDb, sent, destDB,
                   dest, loaded>>

\* one turn of repl: readCommand, then p.dest.writer.raw(b)
readCommand ==
    /\ pc = "repl"
    /\ Bind(ReadString(pos, 10), LAMBDA b :
           IF b.err # Nil THEN Fail(b.pos, ErrReadCommand) /\ sent' = sent
           ELSE /\ pos' = b.pos
                /\ sent' = Append(sent, [cmd |-> "raw", args |-> <<b.str>>,
                                          rep |-> Reply("none", ""), db |-> 0])
                /\ UNCHANGED <<r, pc, err>>)
    /\ UNCHANGED <<others, stream, items, expire, hasSelectDb, destDB, dest,
                   loaded>>

NextReader ==
    \/ readSize
    \/ readData
    \/ readRDBReturns
    \/ readCommand

SpecReader == InitReader /\ [][NextReader]_vars

\* ------------------------------------------- two decoders and one buff
\* Two decoders, each in one primitive read of its own stream: io.ReadFull
\* into buff, then the conversion of what buff holds.

\* the primitive reads: how many bytes of buff they fill
Width(kind) ==
    CASE kind = "loadUint16" -> 2
      [] kind \in {"loadUint32", "loadLen 32 bit"} -> 4
      [] kind \in {"loadUint64", "loadLen 64 bit", "loadBinaryFloat"} -> 8

Kinds == {"loadUint16", "loadUint32", "loadUint64", "loadLen 32 bit",
          "loadLen 64 bit", "loadBinaryFloat"}

\* what the read returns for the bytes b of buff it converts: the length
\* of loadLen, the little-endian bytes of an unsigned, the float's token
Convert(kind, b) ==
    CASE kind \in {"loadLen 32 bit", "loadLen 64 bit"} -> <<BigEndian(b)>>
      [] kind = "loadBinaryFloat" -> <<1>> \o b
      [] OTHER -> b

\* the stream of decoder k
StreamOf(k) == [j \in 1..8 |-> 16 * k + j]

InitBuff ==
    /\ NoRun
    /\ NoCursor
    /\ NoPsync
    /\ buff = <<0, 0, 0, 0, 0, 0, 0, 0>>
    /\ \E kinds \in [1..2 -> Kinds] :
          dec = [k \in 1..2 |-> [in |-> StreamOf(k), kind |-> kinds[k],
                                 pc |-> "ReadFull", res |-> <<>>]]

\* io.ReadFull(r.buf, buff[:w])
readFull ==
    /\ \E k \in DOMAIN dec :
          /\ dec[k].pc = "ReadFull"
          /\ buff' = [j \in 1..8 |-> IF j <= Width(dec[k].kind)
                                      THEN dec[k].in[j] ELSE buff[j]]
          /\ dec' = [dec EXCEPT ![k].pc = "convert"]
    /\ UNCHANGED <<run, input, ret, psync>>

\* binary.LittleEndian.Uint16(buff[:2]) and the like
convert ==
    /\ \E k \in DOMAIN dec :
          /\ dec[k].pc = "convert"
          /\ dec' = [dec EXCEPT ![k].pc = "done",
                                ![k].res = Convert(dec[k].kind,
                                     SubSeq(buff, 1, Width(dec[k].kind)))]
    /\ UNCHANGED <<run, input, ret, buff, psync>>

NextBuff ==
    \/ readFull
    \/ convert

SpecBuff == InitBuff /\ [][NextBuff]_vars

\* ------------------------------------------------------ headers of streams
\* loadRDB on a stream of one string record behind any 9-byte prefix made
\* of a tag and four version characters, and on streams that end within the
\* prefix.  The record is well formed, or its value announces more bytes
\* than the snapshot has left; the snapshot is the whole stream, or the
\* first bytes of the command stream follow it.

Tags == {<<82, 69, 68, 73, 83>>,      \* REDIS
         <<82, 69, 68, 73, 90>>,      \* REDIZ
         <<114, 101, 100, 105, 115>>} \* redis

\* 0 1 9 + - a
VersionChars == {48, 49, 57, 43, 45, 97}

StringRecord == Item("RECORD", <<TypeString>> \o Str(<<107>>) \o Str(<<118>>))

\* k = a value of 12 bytes, of which the snapshot holds 10: v, the EOF
\* opcode and the checksum
LongRecord == Item("RECORD", <<TypeString>> \o Str(<<107>>) \o <<12, 118>>)

InitHeader ==
    /\ \E tag \in Tags, version \in [1..4 -> VersionChars], cut \in 0..9,
          rec \in {StringRecord, LongRecord}, tail \in {<<>>, Commands} :
          /\ cut < 9 => /\ tag = <<82, 69, 68, 73, 83>>
                        /\ version = [k \in 1..4 |-> 48]
                        /\ rec = StringRecord /\ tail = <<>>
          /\ items = <<rec>>
          /\ stream = IF cut < 9 THEN SubSeq(tag \o version, 1, cut)
                      ELSE Snapshot(tag \o version, items) \o tail
          /\ r = [i |-> 0, n |-> Len(Snapshot(tag \o version, items))]
    /\ pos = 0
    /\ expire = Int64Zero
    /\ hasSelectDb = FALSE
    /\ pc = "checkHeader"
    /\ err = Nil
    /\ sent = <<>>
    /\ destDB = 0
    /\ dest = <<>>
    /\ loaded = <<>>
    /\ NoCursor
    /\ NoDecoders
    /\ NoPsync

NextHeader ==
    \/ checkHeader
    \/ record
    \/ opcodeEOF

SpecHeader == InitHeader /\ [][NextHeader]_vars

\* ------------------------------------------------------ the logging task
\* Psync.Go from `go p.log(p.dest)` on: Go returns, and its deferred cleanup
\* cancels the context and closes both connections, while the log goroutine
\* runs its loop and the destination answers on its connection.

\* the lines the destination sends, and the shutdown notices counted
MaxLines == 2
MaxNotices == 2

InitLog ==
    /\ NoRun
    /\ NoCursor
    /\ NoDecoders
    /\ psync = [ctx |-> "live", go |-> "cleanup", log |-> "select",
                conn |-> "open", lines |-> 0, printed |-> 0, notices |-> 0]

\* p.cancel()
cancel ==
    /\ psync.go = "cleanup"
    /\ psync' = [psync EXCEPT !.ctx = "cancelled", !.go = "src.close"]
    /\ UNCHANGED <<run, input, ret, buff, dec>>

\* p.src.close()
srcClose ==
    /\ psync.go = "src.close"
    /\ psync' = [psync EXCEPT !.go = "dest.close"]
    /\ UNCHANGED <<run, input, ret, buff, dec>>

\* p.dest.close()
destClose ==
    /\ psync.go = "dest.close"
    /\ psync' = [psync EXCEPT !.conn = "closed", !.go = "returned"]
    /\ UNCHANGED <<run, input, ret, buff, dec>>

\* the destination writes a line
destReplies ==
    /\ psync.conn = "open"
    /\ psync.lines + psync.printed < MaxLines
    /\ psync' = [psync EXCEPT !.lines = psync.lines + 1]
    /\ UNCHANGED <<run, input, ret, buff, dec>>

\* the destination drops the connection
destBreaks ==
    /\ psync.conn = "open"
    /\ psync' = [psync EXCEPT !.conn = "broken"]
    /\ UNCHANGED <<run, input, ret, buff, dec>>

\* select: the Done case when the context is cancelled, else default
logSelect ==
    /\ psync.log = "select"
    /\ psync' = [psync EXCEPT !.log = IF psync.ctx = "cancelled" THEN "Done"
                                      ELSE "readLine"]
    /\ UNCHANGED <<run, input, ret, buff, dec>>

\* case <-p.ctx.Done(): the notice is printed and the loop goes on
logDone ==
    /\ psync.log = "Done"
    /\ psync' = [psync EXCEPT !.log = "select",
                              !.notices = IF psync.notices < MaxNotices
                                          THEN psync.notices + 1
                                          ELSE MaxNotices]
    /\ UNCHANGED <<run, input, ret, buff, dec>>

\* r.reader.readLine() returns a line
logReadLine ==
    /\ psync.log = "readLine"
    /\ psync.lines > 0
    /\ psync' = [psync EXCEPT !.log = "Printf", !.lines = psync.lines - 1]
    /\ UNCHANGED <<run, input, ret, buff, dec>>

\* r.reader.readLine() returns an error: no line is left and the connection
\* is closed or broken
logReadLineFails ==
    /\ psync.log = "readLine"
    /\ psync.lines = 0
    /\ psync.conn # "open"
    /\ psync' = [psync EXCEPT !.log = IF psync.ctx = "cancelled" THEN "returned"
                                      ELSE "panicked"]
    /\ UNCHANGED <<run, input, ret, buff, dec>>

\* fmt.Printf("%s", str)
logPrintf ==
    /\ psync.log = "Printf"
    /\ psync' = [psync EXCEPT !.log = "select", !.printed = psync.printed + 1]
    /\ UNCHANGED <<run, input, ret, buff, dec>>

\* the steps of the log goroutine
log ==
    \/ logSelect
    \/ logDone
    \/ logReadLine
    \/ logReadLineFails
    \/ logPrintf

\* the steps of Go's deferred cleanup
cleanup ==
    \/ cancel
    \/ srcClose
    \/ destClose

NextLog ==
    \/ cancel
    \/ srcClose
    \/ destClose
    \/ destReplies
    \/ destBreaks
    \/ logSelect
    \/ logDone
    \/ logReadLine
    \/ logReadLineFails
    \/ logPrintf

SpecLog == InitLog /\ [][NextLog]_vars

\* both goroutines are scheduled as long as they can take a step
SpecLogFair == SpecLog /\ WF_vars(cleanup) /\ WF_vars(log)

\* ------------------------------------------------ the snapshot, as written
\* What the run is compared with: the items the snapshot was built from.

\* the number of stream bytes before item k (before the EOF opcode for
\* k = Len(items) + 1)
ItemStart(k) == Len(Header) + Len(Flatten(SubSeq(items, 1, k - 1)))

\* a structurally valid snapshot, delivered whole
Valid ==
    /\ SubSeq(stream, 1, Len(Header)) = Header
    /\ \A k \in 1..Len(items) : items[k].op \in ValidOps
    /\ Len(stream) >= r.n

\* the milliseconds an expiry item stands for, as an int64
ExpiryOf(item) ==
    IF item.op = "EXPIRETIME_MS" THEN SubSeq(item.b, 2, 9)
    ELSE MulLE(SubSeq(item.b, 2, 5) \o <<0, 0, 0, 0>>, 1000, 0)

\* the expiry item k is subject to: that of the last expiry item since the
\* previous record, <<>> when there is none
RECURSIVE Pending(_)
Pending(k) ==
    IF k = 1 \/ items[k - 1].op = "RECORD" THEN <<>>
    ELSE IF items[k - 1].op \in {"EXPIRETIME", "EXPIRETIME_MS"}
    THEN ExpiryOf(items[k - 1])
    ELSE Pending(k - 1)

\* the index of the last SELECTDB item before item k, <<>> when there is none
RECURSIVE Selected(_)
Selected(k) ==
    IF k = 1 THEN <<>>
    ELSE IF items[k - 1].op = "SELECTDB" THEN <<items[k - 1].b[2]>>
    ELSE Selected(k - 1)

\* ------------------------------------------------------------------ claims

\* C1: in a valid snapshot every record handed to loadValue is a record of
\* the snapshot, and the expiry handed over with it is that of the last
\* expiry opcode since the previous record, none (not positive) when there
\* is no such opcode.
C1_ExpiryBindsToNextRecord ==
    Valid =>
        \A j \in 1..Len(loaded) :
            \E k \in 1..Len(items) :
                /\ items[k].op = "RECORD"
                /\ ItemStart(k) = loaded[j].start
                /\ IF Pending(k) = <<>> THEN ~Int64Positive(loaded[j].expire)
                   ELSE loaded[j].expire = Pending(k)

\* C2: between two handlers of a valid snapshot the cursor, and the byte
\* count, stand at the start of an item or of the EOF opcode.
C2_CursorOnNextOpcode ==
    (Valid /\ pc = "loadData") =>
        \E k \in 1..(Len(items) + 1) : pos = ItemStart(k) /\ r.i = ItemStart(k)

\* C3: a run over a valid snapshot that returns no error has consumed
\* exactly the announced length.
C3_ConsumedEqualsAnnounced ==
    (Valid /\ pc = "done") => r.i = r.n

\* C4: EXPIRETIME consumes the opcode and 4 bytes and sets the pending
\* expiry to 1000 times their little-endian value; EXPIRETIME_MS consumes
\* the opcode and 8 bytes and sets it to their little-endian value.
C4_ExpireOperands ==
    [][/\ (AtOpcode(FlagOpcodeExpireTime) /\ Len(stream) >= pos + 5) =>
            /\ pos' = pos + 5
            /\ r'.i = r.i + 5
            /\ expire' = MulLE(SubSeq(stream, pos + 2, pos + 5) \o <<0, 0, 0, 0>>,
                               1000, 0)
       /\ (AtOpcode(FlagOpcodeExpireTimeMs) /\ Len(stream) >= pos + 9) =>
            /\ pos' = pos + 9
            /\ r'.i = r.i + 9
            /\ expire' = SubSeq(stream, pos + 2, pos + 9)]_vars

\* the SELECT commands sent so far
Selects == {j \in 1..Len(sent) : sent[j].cmd = "SELECT"}

\* C5, as claimed: at most one SELECT is sent in a run.
C5_AtMostOneSelect == Cardinality(Selects) <= 1

\* C5, amended: the flag never latches, and every SELECTDB opcode whose
\* index is read sends one SELECT carrying that index.
C5_SelectForEverySelectDB ==
    /\ [](hasSelectDb = FALSE)
    /\ [][(AtOpcode(FlagOpcodeSelectDB) /\ loadLen(t).err = Nil) =>
            /\ Len(sent') = Len(sent) + 1
            /\ sent'[Len(sent')].cmd = "SELECT"
            /\ sent'[Len(sent')].args = <<loadLen(t).length>>]_vars

C5_TwoSelectsSent ==
    \E j, k \in Selects : j < k /\ sent[j].args # sent[k].args

\* C6: every command of a record that the destination carries out is
\* carried out on the database of the last SELECTDB opcode before the
\* record.
C6_WrittenUnderLastSelectDB ==
    [][\A k \in 1..Len(items) :
          (/\ pc = "loadData" /\ pos = ItemStart(k) /\ r.i = pos
           /\ items[k].op = "RECORD" /\ Selected(k) # <<>>) =>
             \A j \in (Len(sent) + 1)..Len(sent') :
                 sent'[j].rep.kind \notin {"neterr", "error"} =>
                     <<sent'[j].db>> = Selected(k)]_vars

\* the payload bytes of the integer encoding with selector e
IntBytes(e) == IF e = EncodeInt8 THEN 1 ELSE IF e = EncodeInt16 THEN 2 ELSE 4

\* C7: when the value of a string record starts with an integer encoding
\* marker, loadString consumes the marker and 1, 2 or 4 bytes, and the value
\* it returns, the one the SET carries, is the decimal spelling of their
\* signed value.
C7_SignedDecimal ==
    [][\A e \in {EncodeInt8, EncodeInt16, EncodeInt32} :
          Bind(loadString(t), LAMBDA key :
              (/\ AtOpcode(TypeString) /\ key.err = Nil
               /\ Len(stream) >= key.pos + 1 + IntBytes(e)
               /\ stream[key.pos + 1] = 192 + e) =>
                 /\ pos' = key.pos + 1 + IntBytes(e)
                 /\ \E j \in (Len(sent) + 1)..Len(sent') :
                        /\ sent'[j].cmd = "SET"
                        /\ sent'[j].args
                             = <<key.res, FormatInt(SubSeq(stream, key.pos + 2,
                                                key.pos + 1 + IntBytes(e)))>>)]_vars

\* first bytes 0b10xxxxxx other than 0x80 and 0x81, and the markers of the
\* encoding selectors other than 0..3
ReservedLen == 130..191
ReservedEnc == 196..255

\* C8: loadLen fails on a reserved first byte and consumes that byte only;
\* loadString fails on a reserved selector; a handler whose first operand
\* starts so ends the run with that error, nothing sent.
C8_ReservedPatternsFail ==
    /\ [](\A p \in 0..(Len(stream) - 1) :
            /\ stream[p + 1] \in ReservedLen =>
                  /\ loadLen([pos |-> p, i |-> p]).err = ErrLenEncoding
                  /\ loadLen([pos |-> p, i |-> p]).pos = p + 1
                  /\ loadLen([pos |-> p, i |-> p]).i = p + 1
                  /\ loadString([pos |-> p, i |-> p]).err = ErrLenEncoding
            /\ stream[p + 1] \in ReservedEnc =>
                  /\ loadString([pos |-> p, i |-> p]).err = ErrStringEncode
                  /\ loadString([pos |-> p, i |-> p]).pos = p + 1)
    /\ [][(/\ pc = "loadData" /\ r.i < r.n /\ t.err = Nil
           /\ Len(stream) >= pos + 2
           /\ \/ /\ t.buf \in {FlagOpcodeIdle, FlagOpcodeResizeDB, FlagOpcodeSelectDB}
                 /\ stream[pos + 2] \in ReservedLen
              \/ /\ t.buf = FlagOpcodeAux \/ t.buf < FlagOpcodeIdle
                 /\ stream[pos + 2] \in ReservedLen \cup ReservedEnc) =>
            /\ pc' = "failed"
            /\ err' = IF stream[pos + 2] \in ReservedLen
                      THEN ErrLenEncoding ELSE ErrStringEncode
            /\ pos' = pos + 2
            /\ sent' = sent /\ dest' = dest /\ loaded' = loaded]_vars

C8_RunFailedOnReservedLength ==
    /\ pc = "failed" /\ err = ErrLenEncoding
    /\ stream[pos] \in ReservedLen
    /\ \E p \in 0..(Len(stream) - 1) :
           /\ stream[p + 1] \in ReservedEnc
           /\ loadString([pos |-> p, i |-> p]).err = ErrStringEncode

Unsupported == {TypeModule, TypeModule2, TypeStreamListPacks}
Unhandled == {8} \cup (16..247)

\* C9: a record of type 6, 7 or 15 ends the run with an 'unsupported'
\* error, one of type 8 or 16..247 with the 'unhandled' error; nothing is
\* sent for the record, and a failed run takes no further step.
C9_UnsupportedTypesFail ==
    /\ [](Len(items) <= 1 =>
            \A ty \in Unsupported \cup Unhandled, fail \in Fails :
                Bind(loadValue(cur, D, <<107>>, ty, expire, fail), LAMBDA v :
                    /\ v.d = D
                    /\ v.pos = pos
                    /\ v.err = IF ty \in Unhandled THEN ErrUnhandled
                               ELSE IF ty = TypeStreamListPacks THEN ErrStreams
                               ELSE ErrModules))
    /\ [][(/\ pc = "loadData" /\ r.i < r.n /\ t.err = Nil
           /\ t.buf \in Unsupported \cup Unhandled
           /\ loadString(t).err = Nil) =>
            /\ pc' = "failed"
            /\ err' = IF t.buf \in Unhandled THEN ErrUnhandled
                      ELSE IF t.buf = TypeStreamListPacks THEN ErrStreams
                      ELSE ErrModules
            /\ sent' = sent /\ destDB' = destDB /\ dest' = dest]_vars
    /\ [][pc # "failed"]_vars

C9_RunFailedOnModule ==
    /\ pc = "failed" /\ err = ErrModules
    /\ sent # <<>>
    /\ loaded # <<>> /\ loaded[Len(loaded)].t = TypeModule

\* C10: a SELECT or SCRIPT LOAD that the destination fails or rejects ends
\* the run with an error, and is the last command sent.
C10_MetadataErrorsAreFatal ==
    \A j \in 1..Len(sent) :
        (sent[j].cmd \in {"SELECT", "SCRIPT LOAD"}
         /\ sent[j].rep.kind \in {"neterr", "error"}) =>
            pc = "failed" /\ j = Len(sent)

\* the record types whose loader sends its elements in one write
OneWriteTypes == {TypeList, TypeSet, TypeZset, TypeZset2, TypeHash,
                  TypeHashZipMap, TypeListZipList, TypeSetIntSet,
                  TypeZsetZipList, TypeHashZipList}

MultiArgWrites == {"RPUSH", "SADD", "HSET", "ZADD"}

\* the number of elements a write carries: members, or pairs
Elements(e) ==
    IF e.cmd \in {"HSET", "ZADD"} THEN (Len(e.args) - 1) \div 2
    ELSE Len(e.args) - 1

\* C11: when a loader of a one-write type gets an integer reply to its
\* RPUSH, SADD, HSET or ZADD that differs from the number of elements sent,
\* the run fails there and that write is the last command sent (no
\* PEXPIREAT); when the reply matches, the record succeeds, and the run
\* goes on unless the PEXPIREAT that follows is failed by the destination.
C11_ReplyMustEqualCount ==
    [][(pc = "loadData" /\ r.i < r.n /\ t.err = Nil /\ t.buf \in OneWriteTypes) =>
          \A j \in (Len(sent) + 1)..Len(sent') :
              (sent'[j].cmd \in MultiArgWrites /\ sent'[j].rep.kind = "int") =>
                  IF sent'[j].rep.val # Elements(sent'[j])
                  THEN /\ pc' = "failed" /\ err' = ErrForward
                       /\ j = Len(sent')
                       /\ expire' = expire
                  ELSE \/ /\ pc' = "loadData" /\ err' = Nil
                          /\ Int64Positive(expire) <=> j < Len(sent')
                       \/ /\ pc' = "failed" /\ err' = ErrDest
                          /\ Int64Positive(expire)
                          /\ j + 1 = Len(sent')
                          /\ sent'[j + 1].cmd = "PEXPIREAT"
                          /\ sent'[j + 1].rep.kind \in {"neterr", "error"}]_vars

\* a set record with an expiry whose SADD added fewer members than it sent
C11_ShortReplyFailedTheRecord ==
    /\ pc = "failed" /\ err = ErrForward
    /\ Int64Positive(expire)
    /\ sent # <<>>
    /\ sent[Len(sent)].cmd = "SADD"
    /\ sent[Len(sent)].rep.kind = "int"
    /\ sent[Len(sent)].rep.val < Elements(sent[Len(sent)])
    /\ loaded # <<>> /\ loaded[Len(loaded)].t = TypeSet

\* the step reads the record rec at the top of the loop
AtRecord(rec) ==
    /\ pc = "loadData" /\ r.i < r.n
    /\ Len(stream) >= pos + Len(rec.b)
    /\ SubSeq(stream, pos + 1, pos + Len(rec.b)) = rec.b

RECURSIVE Concat(_)
Concat(ss) == IF ss = <<>> THEN <<>> ELSE Head(ss) \o Concat(Tail(ss))

\* C12: a quicklist record of L slabs, read when the destination does not
\* hold the key and answers every command with an integer, is sent as L
\* RPUSH commands, one per slab in order, the record succeeds, and the
\* destination's list is the concatenation of the slabs.
C12_QuickListSlabBySlab ==
    [][\A n \in 1..Len(QuickLists) :
          Bind(QuickLists[n], LAMBDA q :
              (/\ AtRecord(QuickListRecord(q))
               /\ <<destDB, q.key>> \notin DOMAIN dest
               /\ \A j \in (Len(sent) + 1)..Len(sent') :
                      sent'[j].rep.kind = "int") =>
                 /\ pc' = "loadData" /\ err' = Nil
                 /\ Len(sent') >= Len(sent) + Len(q.slabs)
                 /\ \A j \in 1..Len(q.slabs) :
                        /\ sent'[Len(sent) + j].cmd = "RPUSH"
                        /\ sent'[Len(sent) + j].args = <<q.key>> \o q.slabs[j]
                 /\ \A j \in (Len(sent) + Len(q.slabs) + 1)..Len(sent') :
                        sent'[j].cmd # "RPUSH"
                 /\ <<destDB, q.key>> \in DOMAIN dest'
                 /\ dest'[<<destDB, q.key>>].val = Concat(q.slabs))]_vars

\* C14: a zipmap record is sent as one HSET of the slab's pairs in order,
\* whether its first byte carries the pair count or is above 254.
C14_ZipmapPairsInOrder ==
    [][\A n \in 1..Len(Zipmaps) :
          Bind(Zipmaps[n], LAMBDA z :
              AtRecord(ZipmapRecord(z)) =>
                 /\ Len(sent') > Len(sent)
                 /\ sent'[Len(sent) + 1].cmd = "HSET"
                 /\ sent'[Len(sent) + 1].args = <<z.key>> \o z.pairs
                 /\ \A j \in (Len(sent) + 2)..Len(sent') :
                        sent'[j].cmd # "HSET")]_vars

\* C17: the loop is left without error when r.i >= r.n at its top, reading
\* nothing, and when the EOF opcode and the 8 bytes after it have been read,
\* whatever those bytes are and whether or not r.i has reached r.n; it is
\* left without error in no other way, and nothing is read afterwards.
C17_LoopEndsAtCountOrEOF ==
    [][/\ (pc = "loadData" /\ r.i >= r.n) =>
              /\ pc' = "done" /\ err' = Nil
              /\ pos' = pos /\ r' = r
       /\ (AtOpcode(FlagOpcodeEOF) /\ Len(stream) >= pos + 9) =>
              /\ pc' = "done" /\ err' = Nil
              /\ pos' = pos + 9 /\ r' = [r EXCEPT !.i = r.i + 9]
              /\ sent' = sent
       /\ (pc = "loadData" /\ pc' = "done") =>
              r.i >= r.n \/ AtOpcode(FlagOpcodeEOF)
       /\ pc # "done"]_vars

\* a run that ended on an EOF opcode short of r.n, the 8 bytes after the
\* opcode not being the checksum the snapshot was written with
C17_EndedEarlyOnWrongChecksum ==
    /\ pc = "done" /\ err = Nil
    /\ r.i < r.n
    /\ pos >= 9
    /\ stream[pos - 8] = FlagOpcodeEOF
    /\ SubSeq(stream, pos - 7, pos) # Checksum

\* the length field of the zipmap item at the cursor: its size, and the
\* item length it announces
FieldSize == IF input.data[input.index + 1] = 253 THEN 5 ELSE 1
FieldLength ==
    IF input.data[input.index + 1] = 253
    THEN BigEndian(SubSeq(input.data, input.index + 2, input.index + 5))
    ELSE input.data[input.index + 1]

\* a call of loadZipmapItem on an item (not the end marker) that returned
\* without error
ItemLoaded(readFree) ==
    /\ ret'.op = IF readFree THEN "loadZipmapItem(buf, true)"
                 ELSE "loadZipmapItem(buf, false)"
    /\ ret'.err = Nil
    /\ input.index < Len(input.data)
    /\ input.data[input.index + 1] < 254

\* C13: loadZipmapItem(buf, false) moves the cursor past the length field
\* (1 byte, or 5 in the 253 form) and the item's bytes, returning those
\* bytes; loadZipmapItem(buf, true) moves it past the length field, the
\* free byte, the item's bytes and as many padding bytes as the free byte
\* says, returning the item's bytes.
C13_ZipmapItemConsumes ==
    [][/\ ItemLoaded(FALSE) =>
              /\ input'.index = input.index + FieldSize + FieldLength
              /\ ret'.v = SubSeq(input.data, input.index + FieldSize + 1,
                                 input.index + FieldSize + FieldLength)
       /\ ItemLoaded(TRUE) =>
              /\ input'.index = input.index + FieldSize + 1 + FieldLength
                                  + input.data[input.index + FieldSize + 1]
              /\ ret'.v = SubSeq(input.data, input.index + FieldSize + 2,
                                 input.index + FieldSize + 1 + FieldLength)]_vars

\* the header bytes 11xxxxxx of the fixed-width integers, and of the 4-bit
\* immediates
IntHeaders == {ZipInt16B, ZipInt32B, ZipInt64B, ZipInt24B, ZipInt08B}
ImmediateHeaders == 241..253

\* a call of loadZiplistEntry on an entry with a one-byte prev-len and the
\* header h
EntryLoaded(h) ==
    /\ ret'.op = "loadZiplistEntry"
    /\ input.index + 2 <= Len(input.data)
    /\ input.data[input.index + 1] < ZipBigPrevLen
    /\ input.data[input.index + 2] = h

\* C15: loadZiplistEntry returns the decimal of (header & 0x0F) - 1 for
\* the headers 0xF1..0xFD, consuming nothing after the header, and the
\* unknown-header error for every other header 11xxxxxx that is not the
\* header of a fixed-width integer, 0xFF among them.
C15_ImmediateHeaders ==
    [][\A h \in 192..255 :
          EntryLoaded(h) =>
              /\ h \in ImmediateHeaders =>
                     /\ ret'.err = Nil
                     /\ ret'.v = Itoa(<<(h % 16) - 1>>)
                     /\ input'.index = input.index + 2
              /\ h \notin ImmediateHeaders \cup IntHeaders =>
                     ret'.err = ErrZiplistHeader]_vars

\* C20: the index of a cursor stays within 0..len(data) whatever is called
\* on it, and a Slice(n) reaching beyond the slab returns EOF and leaves the
\* index where it was.
C20_IndexWithinSlab ==
    /\ [](0 <= input.index /\ input.index <= Len(input.data))
    /\ [][(ret'.op = "Slice" /\ input.index + ret'.arg[1] > Len(input.data)) =>
              /\ ret'.err = ErrEOF
              /\ input' = input]_vars

\* C19: loadLen on the prefix written for N returns N and no error, not as
\* an encoding selector, having read the 1, 2 or 5 bytes of the prefix and
\* nothing after them; on a first byte 11xxxxxx it returns the low 6 bits
\* as an encoding selector, having read that byte only.
C19_LengthRoundTrip ==
    pc = "returned" =>
        /\ err = Nil
        /\ ret.length = items[1].n
        /\ ret.isEncode = (items[1].op = "ENCODING")
        /\ pos = Len(items[1].b) /\ r.i = Len(items[1].b)
        /\ Len(items[1].b) = IF items[1].op = "ENCODING" \/ items[1].n <= 63 THEN 1
                             ELSE IF items[1].n <= 16383 THEN 2
                             ELSE 5

\* the length 16384, in five bytes, read with a byte left after it
C19_FiveBytePrefixRead ==
    /\ pc = "returned" /\ err = Nil
    /\ items[1].n = 16384
    /\ ret.length = 16384
    /\ pos = 5 /\ Len(stream) = 6

\* the bytes of the source's answer up to the end of the snapshot, and the
\* commands after it
DataEnd == Len(Flatten(SelectSeq(items, LAMBDA it : it.op # "COMMAND")))
CommandsWritten == SelectSeq(items, LAMBDA it : it.op = "COMMAND")

\* C18: when readRDB has returned, the reader has handed out the idle
\* lines, the size line and the announced number of bytes, and no more;
\* the first command repl forwards is the first one the source wrote after
\* the snapshot.
C18_ExactlyTheSnapshotRead ==
    /\ (pc = "repl" /\ sent = <<>>) => pos = DataEnd
    /\ sent # <<>> =>
           /\ CommandsWritten # <<>>
           /\ sent[1].args = <<CommandsWritten[1].b>>

\* C16: whatever the interleaving of two decoders' primitive reads, each
\* read returns what it returns for the bytes of its own stream.
C16_DecodersDoNotInterfere ==
    \A k \in DOMAIN dec :
        dec[k].pc = "done" =>
            dec[k].res = Convert(dec[k].kind,
                                 SubSeq(dec[k].in, 1, Width(dec[k].kind)))

\* the stream begins with REDIS and four decimal digits of value 1..9
WellFormedHeader ==
    /\ Len(stream) >= 9
    /\ SubSeq(stream, 1, 5) = <<82, 69, 68, 73, 83>>
    /\ \A k \in 6..9 : IsDigit(stream[k])
    /\ Decimal(SubSeq(stream, 6, 9), 0) \in 1..9

\* C21: checkHeader lets the run go on exactly when the stream begins
\* with REDIS and four decimal digits of value 1..9; on every other stream
\* the run ends with an error, and no record is decoded and nothing sent.
C21_HeaderAcceptedIffWellFormed ==
    /\ [](~WellFormedHeader =>
             /\ pc \in {"checkHeader", "failed"}
             /\ loaded = <<>> /\ sent = <<>>)
    /\ [][pc = "checkHeader" =>
             IF WellFormedHeader THEN pc' = "loadData" /\ err' = Nil
             ELSE pc' = "failed" /\ err' # Nil]_vars

\* the step of the loop that hands a record to loadValue
RecordStep == pc = "loadData" /\ Len(loaded') = Len(loaded) + 1

\* the commands a step sends, and the PEXPIREATs among them
NewSent == SubSeq(sent', Len(sent) + 1, Len(sent'))

Expiries(cs) == {j \in 1..Len(cs) : cs[j].cmd = "PEXPIREAT"}

Succeeded(c) == c.rep.kind \notin {"neterr", "error"}

\* C22: a record loaded with a pending expiry e > 0 sends exactly one
\* PEXPIREAT key e, as the last command of the record and after all its
\* write commands have succeeded; a record loaded with a pending expiry
\* <= 0 (the first record of a snapshot with no expiry opcode included)
\* sends none, and neither does any other step; after every record that
\* was loaded the register is -1.
C22_ExpiryFollowsTheWrites ==
    [][IF RecordStep
       THEN /\ pc' = "loadData" => expire' = Int64MinusOne
            /\ IF ~Int64Positive(expire) THEN Expiries(NewSent) = {}
               ELSE IF pc' = "loadData"
               THEN /\ Expiries(NewSent) = {Len(NewSent)}
                    /\ Len(NewSent) >= 2
                    /\ NewSent[Len(NewSent)].args
                          = <<loaded'[Len(loaded')].key, expire>>
                    /\ \A j \in 1..Len(NewSent) : Succeeded(NewSent[j])
               ELSE /\ Expiries(NewSent) \subseteq {Len(NewSent)}
                    /\ \A j \in 1..(Len(NewSent) - 1) : Succeeded(NewSent[j])
                    /\ Expiries(NewSent) # {} =>
                          /\ ~Succeeded(NewSent[Len(NewSent)])
                          /\ NewSent[Len(NewSent)].args
                                = <<loaded'[Len(loaded')].key, expire>>
       ELSE Expiries(NewSent) = {}]_vars

\* a record's write succeeded, its expiry went out right after it, and the
\* loop goes on with the register at -1
C22_ExpirySentAfterWrites ==
    /\ pc = "loadData"
    /\ expire = Int64MinusOne
    /\ \E j \in 2..Len(sent) :
          /\ sent[j].cmd = "PEXPIREAT" /\ Succeeded(sent[j])
          /\ sent[j - 1].cmd \in {"RPUSH", "SADD", "HSET", "ZADD"}
          /\ Succeeded(sent[j - 1])
          /\ sent[j - 1].args[1] = sent[j].args[1]

\* the payload bytes the header at data[h] announces, left bytes after it;
\* a length field that is itself cut announces at least its own size
PayloadSize(data, h, left) ==
    CASE data[h] \div 64 = ZipStr06B -> data[h] % 64
      [] data[h] \div 64 = ZipStr14B ->
            IF left < 1 THEN 1 ELSE 1 + (data[h] % 64) * 256 + data[h + 1]
      [] data[h] \div 64 = ZipStr32B ->
            IF left < 4 THEN 4 ELSE 4 + BigEndian(SubSeq(data, h + 1, h + 4))
      [] data[h] = ZipInt08B -> 1
      [] data[h] = ZipInt16B -> 2
      [] data[h] = ZipInt24B -> 3
      [] data[h] = ZipInt32B -> 4
      [] data[h] = ZipInt64B -> 8
      [] OTHER -> 0

PrevLenSize(buf) ==
    IF buf.index < Len(buf.data) /\ buf.data[buf.index + 1] = ZipBigPrevLen
    THEN 5 ELSE 1

\* the slab has fewer bytes left than the entry at the cursor announces
Truncated(buf) ==
    \/ Len(buf.data) - buf.index < PrevLenSize(buf) + 1
    \/ Len(buf.data) - buf.index
          < PrevLenSize(buf) + 1
            + PayloadSize(buf.data, buf.index + PrevLenSize(buf) + 1,
                          Len(buf.data) - buf.index - PrevLenSize(buf) - 1)

\* C23: loadZiplistEntry returns an error whenever the slab has fewer
\* bytes left than the prev-len field and the header of the entry
\* announce, whatever the encoding of the entry.
C23_TruncatedEntryIsAnError ==
    [][(ret'.op = "loadZiplistEntry" /\ Truncated(input)) => ret'.err # Nil]_vars

\* C24: the decoder never consumes more bytes of the stream than the
\* announced length of the snapshot, whatever the bytes on the stream:
\* r.i <= r.n in every state of checkHeader and loadData.
C24_NeverPastAnnouncedLength == r.i <= r.n

\* C25: once the context of the Psync has been cancelled, the logging task
\* started by `go p.log(p.dest)` eventually ends; it does not go on
\* looping after it has seen ctx.Done().
C25_LogReturnsAfterCancel ==
    (psync.ctx = "cancelled") ~> (psync.log \in {"returned", "panicked"})

====
